---------------------------- MODULE Spec2Model ----------------------------
(***************************************************************************)
(* doxygen2man (src/src/main.rs): the Builder (read_file and the collect_*  *)
(* procedures), the Resolver (read_structures_files) and the Formatting     *)
(* Engine (print_man_page and its helpers), driven by main one input file   *)
(* after the other.                                                         *)
(*                                                                          *)
(* Text is a string; an event stream is a sequence of XmlEvent records.     *)
(* A collecting procedure returns a record whose st is                      *)
(*   "ok"   the procedure returned Ok,                                      *)
(*   "err"  the reader returned Err and `?` (or return Err) propagated it,  *)
(*   "hang" the loop never ends: it ignores EndDocument, which the reader   *)
(*          returns again on every later call.                              *)
(***************************************************************************)
EXTENDS Integers, Sequences, FiniteSets, TLC

(***************************************************************************)
(* Program constants.                                                       *)
(***************************************************************************)
MAX_PRINT_PARAM_LEN == 80

MAX_STRUCT_COMMENT_LEN == 50

DefaultHeaderfile == "unknown.h"

(***************************************************************************)
(* Strings (std::string::String as used by the program).                    *)
(***************************************************************************)
CharAt(s, i) == SubSeq(s, i, i)

IsWhitespace(c) == c \in {" ", "\n", "\t"}

RECURSIVE trim_end(_)
trim_end(s) ==
    IF s = "" THEN s
    ELSE IF IsWhitespace(CharAt(s, Len(s))) THEN trim_end(SubSeq(s, 1, Len(s) - 1))
    ELSE s

RECURSIVE trim_start(_)
trim_start(s) ==
    IF s = "" THEN s
    ELSE IF IsWhitespace(CharAt(s, 1)) THEN trim_start(SubSeq(s, 2, Len(s)))
    ELSE s

trim(s) == trim_start(trim_end(s))

\* Byte order of the characters that occur in reference ids and names.
Alphabet == ".0123456789ABCDEFGHIJKLMNOPQRSTUVWXYZ_abcdefghijklmnopqrstuvwxyz"

CharRank(c) ==
    IF \E i \in 1..Len(Alphabet) : CharAt(Alphabet, i) = c
    THEN CHOOSE i \in 1..Len(Alphabet) : CharAt(Alphabet, i) = c
    ELSE 0

\* a < b in the order of String (lexicographic by byte)
RECURSIVE StrLess(_, _)
StrLess(a, b) ==
    IF b = "" THEN FALSE
    ELSE IF a = "" THEN TRUE
    ELSE IF CharAt(a, 1) = CharAt(b, 1) THEN StrLess(SubSeq(a, 2, Len(a)), SubSeq(b, 2, Len(b)))
    ELSE CharRank(CharAt(a, 1)) < CharRank(CharAt(b, 1))

\* Vec<String>::sort_unstable (insertion of each element into a sorted prefix)
RECURSIVE InsertSorted(_, _)
InsertSorted(v, x) ==
    IF v = <<>> THEN <<x>>
    ELSE IF StrLess(x, v[1]) THEN <<x>> \o v
    ELSE <<v[1]>> \o InsertSorted(Tail(v), x)

RECURSIVE sort_unstable(_)
sort_unstable(v) ==
    IF v = <<>> THEN <<>>
    ELSE InsertSorted(sort_unstable(SubSeq(v, 1, Len(v) - 1)), v[Len(v)])

\* Vec::dedup: removes consecutive repeated elements
RECURSIVE dedup(_)
dedup(v) ==
    IF Len(v) <= 1 THEN v
    ELSE IF v[1] = v[2] THEN dedup(Tail(v))
    ELSE <<v[1]>> \o dedup(Tail(v))

\* The value of the expression e in which x names v, written With({e : x \in {v}})
With(S) == CHOOSE v \in S : TRUE

\* Option<String>
None == <<>>

Some(r) == <<r>>

(***************************************************************************)
(* The Markup Event Source.  XmlEvent::StartElement carries the attributes  *)
(* the program reads with get_attr (an absent attribute reads as "").       *)
(***************************************************************************)
StartElement(name, kind, id, refid, class) ==
    [t |-> "StartElement", name |-> name, kind |-> kind, id |-> id,
     refid |-> refid, class |-> class]

Start(name) == StartElement(name, "", "", "", "")

EndElement(name) == [t |-> "EndElement", name |-> name]

Characters(s) == [t |-> "Characters", s |-> s]

EndDocument == [t |-> "EndDocument"]

ReadErr == [t |-> "Err"]

get_attr(e, attrname) ==
    IF e.t # "StartElement" THEN ""
    ELSE IF attrname = "kind" THEN e.kind
    ELSE IF attrname = "id" THEN e.id
    ELSE IF attrname = "refid" THEN e.refid
    ELSE IF attrname = "class" THEN e.class
    ELSE ""

\* A reader is [ev: the events of the source, failAt: the position at which
\* reading fails (0: never)].  parser.next() at position p: the reader keeps
\* its final result, so a failure and the end of the document are returned
\* again by every later call.
ParserNext(src, p) ==
    IF src.failAt # 0 /\ p >= src.failAt THEN ReadErr
    ELSE IF p > Len(src.ev) THEN EndDocument
    ELSE src.ev[p]

Advance(src, p) ==
    IF src.failAt # 0 /\ p >= src.failAt THEN p
    ELSE IF p > Len(src.ev) THEN p
    ELSE p + 1

\* What File::open yields for a file it cannot open
Missing == [missing |-> TRUE]

(***************************************************************************)
(* A collecting procedure X is a loop around `match parser.next()`.  Its    *)
(* locals are the record s: s.st is "run" while the loop goes on and the    *)
(* way the procedure returned afterwards ("ok": Ok, "err": Err, "hang": the *)
(* loop never ends), s.pos is the position of the reader.  X_match is one   *)
(* turn of the loop, X_loop takes turns until the procedure returns.        *)
(***************************************************************************)
\* the loop goes on, the reader at q
Go(s, q) == [s EXCEPT !.pos = q]

\* the procedure returns st, the reader at q
Return(s, st, q) == [s EXCEPT !.st = st, !.pos = q]

(***************************************************************************)
(* Document Model Builder: text collectors.                                 *)
(***************************************************************************)
RECURSIVE parse_standard_elements(_, _, _, _)
RECURSIVE collect_text(_, _, _)

\* collect_text(parser, name) with prefix and suffix added around its text
Wrapped(src, p, name, prefix, suffix) ==
    With({ IF r.st # "ok" THEN r
           ELSE [st |-> "ok", pos |-> r.pos, text |-> prefix \o r.text \o suffix]
           : r \in {collect_text(src, p, name)} })

parse_standard_elements(src, p, name, e) ==
    CASE name \in {"para", "computeroutput", "codeline", "parameternamelist",
                   "parameteritem", "parameterlist", "parameterdescription",
                   "parametername", "ref", "simplesect"} ->
            Wrapped(src, p, name, "", "")
      [] name = "sp" -> [st |-> "ok", pos |-> p, text |-> " "]
      [] name = "emphasis" -> Wrapped(src, p, name, "\\fB", "\\fR")
      [] name = "highlight" ->
            IF get_attr(e, "class") # "normal"
            THEN Wrapped(src, p, name, "\\fB", "\\fR")
            ELSE Wrapped(src, p, name, "", "")
      [] name = "programlisting" -> Wrapped(src, p, name, "\n.nf\n", "\n.fi\n")
      [] name = "itemizedlist" -> Wrapped(src, p, name, "\n", "\n")
      [] name = "listitem" -> Wrapped(src, p, name, "\n* ", "")
      [] name = "note" -> Wrapped(src, p, name, "", "\n")
      [] name \in {"xreftitle", "xrefdescription", "xrefsect"} ->
            With({ IF r.st # "ok" THEN r ELSE [st |-> "ok", pos |-> r.pos, text |-> ""]
                   : r \in {collect_text(src, p, name)} })
      [] OTHER -> [st |-> "ok", pos |-> p, text |-> ""]

\* collect_text passing over every close event, that of its own element
\* included
collect_text_match_PastItsClose(src, elem_name, s) ==
    LET e == ParserNext(src, s.pos)
        q == Advance(src, s.pos)
    IN  CASE e.t = "Err" -> Return(s, "err", q)
          [] e.t = "StartElement" ->
                With({ IF r.st # "ok" THEN Return(s, r.st, r.pos)
                       ELSE [s EXCEPT !.pos = r.pos, !.text = @ \o r.text]
                       : r \in {parse_standard_elements(src, q, e.name, e)} })
          [] e.t = "Characters" -> [s EXCEPT !.pos = q, !.text = @ \o e.s]
          [] e.t = "EndElement" -> Go(s, q)
          [] OTHER -> Return(s, "hang", q)

collect_text_match(src, elem_name, s) ==
    LET e == ParserNext(src, s.pos)
        q == Advance(src, s.pos)
    IN  CASE e.t = "Err" -> Return(s, "err", q)
          [] e.t = "StartElement" ->
                With({ IF r.st # "ok" THEN Return(s, r.st, r.pos)
                       ELSE [s EXCEPT !.pos = r.pos, !.text = @ \o r.text]
                       : r \in {parse_standard_elements(src, q, e.name, e)} })
          [] e.t = "Characters" -> [s EXCEPT !.pos = q, !.text = @ \o e.s]
          [] e.t = "EndElement" ->
                IF e.name = elem_name
                THEN [s EXCEPT !.st = "ok", !.pos = q, !.text = trim_end(@)]
                ELSE Go(s, q)
          [] OTHER -> Return(s, "hang", q)

RECURSIVE collect_text_loop(_, _, _)
collect_text_loop(src, elem_name, s) ==
    IF s.st # "run" THEN s
    ELSE collect_text_loop(src, elem_name, collect_text_match(src, elem_name, s))

collect_text(src, p, elem_name) ==
    collect_text_loop(src, elem_name, [st |-> "run", pos |-> p, text |-> ""])

collect_text_and_refid_match(src, s) ==
    LET e == ParserNext(src, s.pos)
        q == Advance(src, s.pos)
    IN  CASE e.t = "Err" -> Return(s, "err", q)
          [] e.t = "StartElement" ->
                IF e.name = "ref"
                THEN With({ IF r.st # "ok" THEN Return(s, r.st, r.pos)
                            ELSE [s EXCEPT !.pos = r.pos, !.text = @ \o r.text,
                                           !.refid = Some(get_attr(e, "refid"))]
                            : r \in {collect_text(src, q, e.name)} })
                ELSE With({ IF r.st # "ok" THEN Return(s, r.st, r.pos)
                            ELSE [s EXCEPT !.pos = r.pos, !.text = @ \o r.text]
                            : r \in {parse_standard_elements(src, q, e.name, e)} })
          [] e.t = "Characters" -> [s EXCEPT !.pos = q, !.text = @ \o e.s]
          [] e.t = "EndElement" ->
                [s EXCEPT !.st = "ok", !.pos = q, !.text = trim_end(@)]
          [] OTHER -> Return(s, "hang", q)

RECURSIVE collect_text_and_refid_loop(_, _)
collect_text_and_refid_loop(src, s) ==
    IF s.st # "run" THEN s
    ELSE collect_text_and_refid_loop(src, collect_text_and_refid_match(src, s))

collect_text_and_refid(src, p) ==
    collect_text_and_refid_loop(src, [st |-> "run", pos |-> p, text |-> "", refid |-> None])

(***************************************************************************)
(* Document Model Builder: the detailed-description dispatcher.             *)
(***************************************************************************)
ReturnVal(ret_name, ret_desc) == [ret_name |-> ret_name, ret_desc |-> ret_desc]

FnParam(par_name, par_type, par_refid, par_args, par_desc, par_brief) ==
    [par_name |-> par_name, par_type |-> par_type, par_refid |-> par_refid,
     par_args |-> par_args, par_desc |-> par_desc, par_brief |-> par_brief]

\* FunctionInfo::new()
NewFunctionInfo ==
    [fn_type |-> "", fn_name |-> "", fn_def |-> "", fn_argsstring |-> "",
     fn_brief |-> "", fn_detail |-> "", fn_returnval |-> "", fn_note |-> "",
     fn_args |-> <<>>, fn_defines |-> <<>>, fn_retvals |-> <<>>, fn_refids |-> <<>>]

\* The loop shared by collect_retval and collect_parameter_item: the name and
\* the description of one parameteritem.
collect_item_match(src, elem_name, s) ==
    LET e == ParserNext(src, s.pos)
        q == Advance(src, s.pos)
    IN  CASE e.t = "Err" -> Return(s, "err", q)
          [] e.t = "StartElement" ->
                With({ IF r.st # "ok" THEN Return(s, r.st, r.pos)
                       ELSE IF e.name = "parameternamelist"
                       THEN [s EXCEPT !.pos = r.pos, !.name = trim(r.text)]
                       ELSE IF e.name = "parameterdescription"
                       THEN [s EXCEPT !.pos = r.pos, !.desc = trim(r.text)]
                       ELSE Go(s, r.pos)
                       : r \in {collect_text(src, q, e.name)} })
          [] e.t = "Characters" -> Go(s, q)
          [] e.t = "EndElement" ->
                IF e.name = elem_name THEN Return(s, "ok", q) ELSE Go(s, q)
          [] OTHER -> Return(s, "hang", q)

RECURSIVE collect_item_loop(_, _, _)
collect_item_loop(src, elem_name, s) ==
    IF s.st # "run" THEN s
    ELSE collect_item_loop(src, elem_name, collect_item_match(src, elem_name, s))

collect_parameter_item(src, p, elem_name) ==
    collect_item_loop(src, elem_name, [st |-> "run", pos |-> p, name |-> "", desc |-> ""])

collect_retval(src, p, elem_name) ==
    With({ IF r.st # "ok" THEN r
           ELSE [st |-> "ok", pos |-> r.pos, rv |-> ReturnVal(r.name, r.desc)]
           : r \in {collect_parameter_item(src, p, elem_name)} })

collect_retvals_match(src, elem_name, s) ==
    LET e == ParserNext(src, s.pos)
        q == Advance(src, s.pos)
    IN  CASE e.t = "Err" -> Return(s, "err", q)
          [] e.t = "StartElement" ->
                IF e.name = "parameteritem"
                THEN With({ IF r.st # "ok" THEN Return(s, r.st, r.pos)
                            ELSE [s EXCEPT !.pos = r.pos, !.rvs = Append(@, r.rv)]
                            : r \in {collect_retval(src, q, e.name)} })
                ELSE With({ IF r.st # "ok" THEN Return(s, r.st, r.pos) ELSE Go(s, r.pos)
                            : r \in {collect_text(src, q, e.name)} })
          [] e.t = "Characters" -> Go(s, q)
          [] e.t = "EndElement" ->
                IF e.name = elem_name THEN Return(s, "ok", q) ELSE Go(s, q)
          [] OTHER -> Return(s, "hang", q)

RECURSIVE collect_retvals_loop(_, _, _)
collect_retvals_loop(src, elem_name, s) ==
    IF s.st # "run" THEN s
    ELSE collect_retvals_loop(src, elem_name, collect_retvals_match(src, elem_name, s))

collect_retvals(src, p, elem_name) ==
    collect_retvals_loop(src, elem_name, [st |-> "run", pos |-> p, rvs |-> <<>>])

\* the description given to every Parameter, whatever its name
SetParamDesc_Every(params, name, desc) ==
    [i \in 1..Len(params) |-> [params[i] EXCEPT !.par_desc = desc]]

\* for p in params: if p.par_name == name { p.par_desc = desc }
SetParamDesc(params, name, desc) ==
    [i \in 1..Len(params) |->
        IF params[i].par_name = name
        THEN [params[i] EXCEPT !.par_desc = desc]
        ELSE params[i]]

collect_params_match(src, elem_name, s) ==
    LET e == ParserNext(src, s.pos)
        q == Advance(src, s.pos)
    IN  CASE e.t = "Err" -> Return(s, "err", q)
          [] e.t = "StartElement" ->
                IF e.name = "parameteritem"
                THEN With({ IF r.st # "ok" THEN Return(s, r.st, r.pos)
                            ELSE [s EXCEPT !.pos = r.pos,
                                           !.params = SetParamDesc(@, r.name, r.desc)]
                            : r \in {collect_parameter_item(src, q, e.name)} })
                ELSE With({ IF r.st # "ok" THEN Return(s, r.st, r.pos) ELSE Go(s, r.pos)
                            : r \in {collect_text(src, q, e.name)} })
          [] e.t = "Characters" -> Go(s, q)
          [] e.t = "EndElement" ->
                IF e.name = elem_name THEN Return(s, "ok", q) ELSE Go(s, q)
          [] OTHER -> Return(s, "hang", q)

RECURSIVE collect_params_loop(_, _, _)
collect_params_loop(src, elem_name, s) ==
    IF s.st # "run" THEN s
    ELSE collect_params_loop(src, elem_name, collect_params_match(src, elem_name, s))

collect_params(src, p, elem_name, params) ==
    collect_params_loop(src, elem_name, [st |-> "run", pos |-> p, params |-> params])

RECURSIVE collect_detail_bits(_, _, _, _)

collect_detail_bits_match(src, elem_name, s) ==
    LET e == ParserNext(src, s.pos)
        q == Advance(src, s.pos)
    IN  CASE e.t = "Err" -> Return(s, "err", q)
          [] e.t = "StartElement" ->
                CASE e.name = "para" ->
                        With({ IF r.st # "ok" THEN Return(s, r.st, r.pos)
                               ELSE [s EXCEPT !.pos = r.pos,
                                       !.function = [r.function EXCEPT !.fn_detail = @ \o "\n"]]
                               : r \in {collect_detail_bits(src, q, e.name, s.function)} })
                  [] e.name = "parameterlist" /\ get_attr(e, "kind") = "retval" ->
                        With({ IF r.st # "ok" THEN Return(s, r.st, r.pos)
                               ELSE [s EXCEPT !.pos = r.pos, !.retvals = r.rvs]
                               : r \in {collect_retvals(src, q, e.name)} })
                  [] e.name = "parameterlist" /\ get_attr(e, "kind") = "param" ->
                        With({ IF r.st # "ok" THEN Return(s, r.st, r.pos)
                               ELSE [s EXCEPT !.pos = r.pos, !.function.fn_args = r.params]
                               : r \in {collect_params(src, q, e.name, s.function.fn_args)} })
                  [] e.name = "simplesect" /\ get_attr(e, "kind") = "return" ->
                        With({ IF r.st # "ok" THEN Return(s, r.st, r.pos)
                               ELSE [s EXCEPT !.pos = r.pos, !.returns = @ \o r.text]
                               : r \in {collect_text(src, q, e.name)} })
                  [] e.name = "simplesect" /\ get_attr(e, "kind") = "note" ->
                        With({ IF r.st # "ok" THEN Return(s, r.st, r.pos)
                               ELSE [s EXCEPT !.pos = r.pos, !.notes = @ \o r.text]
                               : r \in {collect_text(src, q, e.name)} })
                  [] e.name \in {"parameterlist", "simplesect"}
                     /\ get_attr(e, "kind") \notin {"retval", "param", "return", "note"} ->
                        With({ IF r.st # "ok" THEN Return(s, r.st, r.pos)
                               ELSE [s EXCEPT !.pos = r.pos, !.text = @ \o r.text]
                               : r \in {collect_text(src, q, e.name)} })
                  [] OTHER ->
                        With({ IF r.st # "ok" THEN Return(s, r.st, r.pos)
                               ELSE [s EXCEPT !.pos = r.pos, !.text = @ \o r.text]
                               : r \in {parse_standard_elements(src, q, e.name, e)} })
          [] e.t = "Characters" -> [s EXCEPT !.pos = q, !.text = @ \o e.s]
          [] e.t = "EndElement" ->
                IF e.name = elem_name
                THEN [s EXCEPT !.st = "ok", !.pos = q,
                               !.function = [@ EXCEPT
                                   !.fn_detail = @ \o trim_end(s.text),
                                   !.fn_returnval = @ \o s.returns,
                                   !.fn_note = @ \o s.notes,
                                   !.fn_retvals = @ \o s.retvals]]
                ELSE Go(s, q)
          [] OTHER -> Return(s, "hang", q)

RECURSIVE collect_detail_bits_loop(_, _, _)
collect_detail_bits_loop(src, elem_name, s) ==
    IF s.st # "run" THEN s
    ELSE collect_detail_bits_loop(src, elem_name, collect_detail_bits_match(src, elem_name, s))

collect_detail_bits(src, p, elem_name, function) ==
    collect_detail_bits_loop(src, elem_name,
        [st |-> "run", pos |-> p, function |-> function,
         text |-> "", returns |-> "", notes |-> "", retvals |-> <<>>])

(***************************************************************************)
(* Document Model Builder: functions, defines, enums and the top level.     *)
(***************************************************************************)
StructureInfo(str_type, str_name, str_brief, str_description, str_members) ==
    [str_type |-> str_type, str_name |-> str_name, str_brief |-> str_brief,
     str_description |-> str_description, str_members |-> str_members]

\* StructureInfo::new()
NewStructureInfo == StructureInfo("Unknown", "", "", "", <<>>)

HashDefine(hd_name, hd_init, hd_brief, hd_desc) ==
    [hd_name |-> hd_name, hd_init |-> hd_init, hd_brief |-> hd_brief, hd_desc |-> hd_desc]

\* HashMap::new() and HashMap::insert
EmptyMap == [k \in {} |-> NewStructureInfo]

MapInsert(m, key, val) ==
    [k \in DOMAIN m \cup {key} |-> IF k = key THEN val ELSE m[k]]

\* collect_function_param without its test of the map: a reference always
\* registers a placeholder
RegisterPlaceholder_Always(structures, refid, tmp) ==
    IF refid # None
    THEN MapInsert(structures, refid[1], StructureInfo("Struct", tmp, "", "", <<>>))
    ELSE structures

\* collect_function_param, lines 634-639: a reference registers a placeholder
\* unless the map already has an entry under that id
RegisterPlaceholder(structures, refid, tmp) ==
    IF refid # None /\ refid[1] \notin DOMAIN structures
    THEN MapInsert(structures, refid[1], StructureInfo("Struct", tmp, "", "", <<>>))
    ELSE structures

collect_function_param_match(src, s) ==
    LET e == ParserNext(src, s.pos)
        q == Advance(src, s.pos)
    IN  CASE e.t = "Err" -> Return(s, "err", q)
          [] e.t = "StartElement" ->
                With({ IF r.st # "ok" THEN Return(s, r.st, r.pos)
                       ELSE [s EXCEPT
                               !.pos = r.pos,
                               !.structures = RegisterPlaceholder(@, r.refid, r.text),
                               !.param = IF e.name = "type"
                                         THEN [@ EXCEPT !.par_type = r.text, !.par_refid = r.refid]
                                         ELSE IF e.name = "declname"
                                         THEN [@ EXCEPT !.par_name = r.text]
                                         ELSE @]
                       : r \in {collect_text_and_refid(src, q)} })
          [] e.t = "EndElement" -> Return(s, "ok", q)
          [] e.t = "Characters" -> Go(s, q)
          [] OTHER -> Return(s, "hang", q)

RECURSIVE collect_function_param_loop(_, _)
collect_function_param_loop(src, s) ==
    IF s.st # "run" THEN s
    ELSE collect_function_param_loop(src, collect_function_param_match(src, s))

collect_function_param(src, p, structures) ==
    collect_function_param_loop(src,
        [st |-> "run", pos |-> p, structures |-> structures,
         param |-> FnParam("", "", None, "", "", "")])

\* collect_function_info without its dedup(): the ids are sorted only
FinishRefids_NoDedup(function) == [function EXCEPT !.fn_refids = sort_unstable(@)]

\* collect_function_info, lines 715-719
FinishRefids(function) == [function EXCEPT !.fn_refids = dedup(sort_unstable(@))]

collect_function_info_match(src, s) ==
    LET e == ParserNext(src, s.pos)
        q == Advance(src, s.pos)
    IN  CASE e.t = "Err" -> Return(s, "err", q)
          [] e.t = "StartElement" ->
                CASE e.name = "param" ->
                        With({ IF r.st # "ok" THEN Return(s, r.st, r.pos)
                               ELSE [s EXCEPT
                                       !.pos = r.pos,
                                       !.structures = r.structures,
                                       !.function.fn_refids = IF r.param.par_refid # None
                                                              THEN Append(@, r.param.par_refid[1])
                                                              ELSE @,
                                       !.function.fn_args = Append(@, r.param)]
                               : r \in {collect_function_param(src, q, s.structures)} })
                  [] e.name = "detaileddescription" ->
                        With({ IF r.st # "ok" THEN Return(s, r.st, r.pos)
                               ELSE [s EXCEPT !.pos = r.pos, !.function = r.function]
                               : r \in {collect_detail_bits(src, q, e.name, s.function)} })
                  [] OTHER ->
                        With({ IF r.st # "ok" THEN Return(s, r.st, r.pos)
                               ELSE CASE e.name = "type" ->
                                           [s EXCEPT !.pos = r.pos, !.function.fn_type = r.text]
                                      [] e.name = "definition" ->
                                           [s EXCEPT !.pos = r.pos, !.function.fn_def = r.text]
                                      [] e.name = "argsstring" ->
                                           [s EXCEPT !.pos = r.pos, !.function.fn_argsstring = r.text]
                                      [] e.name \in {"name", "compoundname"} ->
                                           [s EXCEPT !.pos = r.pos, !.function.fn_name = r.text]
                                      [] e.name = "briefdescription" ->
                                           [s EXCEPT !.pos = r.pos, !.function.fn_brief = r.text]
                                      [] OTHER -> Go(s, r.pos)
                               : r \in {collect_text(src, q, e.name)} })
          [] e.t = "Characters" -> Go(s, q)
          [] e.t = "EndElement" ->
                IF e.name = "memberdef"
                THEN [s EXCEPT !.st = "ok", !.pos = q,
                               !.functions = Append(@, FinishRefids(s.function))]
                ELSE Go(s, q)
          [] OTHER -> Return(s, "hang", q)

RECURSIVE collect_function_info_loop(_, _)
collect_function_info_loop(src, s) ==
    IF s.st # "run" THEN s
    ELSE collect_function_info_loop(src, collect_function_info_match(src, s))

collect_function_info(src, p, functions, structures) ==
    collect_function_info_loop(src,
        [st |-> "run", pos |-> p, functions |-> functions, structures |-> structures,
         function |-> NewFunctionInfo])

collect_define_match(src, s) ==
    LET e == ParserNext(src, s.pos)
        q == Advance(src, s.pos)
    IN  CASE e.t = "Err" -> Return(s, "err", q)
          [] e.t = "StartElement" ->
                IF e.name \in {"name", "initializer", "briefdescription", "detaileddescription"}
                THEN With({ IF r.st # "ok" THEN Return(s, r.st, r.pos)
                            ELSE CASE e.name = "name" ->
                                        [s EXCEPT !.pos = r.pos, !.hd.hd_name = r.text]
                                   [] e.name = "initializer" ->
                                        [s EXCEPT !.pos = r.pos, !.hd.hd_init = r.text]
                                   [] e.name = "briefdescription" ->
                                        [s EXCEPT !.pos = r.pos, !.hd.hd_brief = r.text]
                                   [] OTHER -> [s EXCEPT !.pos = r.pos, !.hd.hd_desc = r.text]
                            : r \in {collect_text(src, q, e.name)} })
                ELSE Go(s, q)
          [] e.t = "EndElement" ->
                IF e.name = "memberdef" THEN Return(s, "ok", q) ELSE Go(s, q)
          [] e.t = "Characters" -> Go(s, q)
          [] OTHER -> Return(s, "ok", q)

RECURSIVE collect_define_loop(_, _)
collect_define_loop(src, s) ==
    IF s.st # "run" THEN s
    ELSE collect_define_loop(src, collect_define_match(src, s))

collect_define(src, p) ==
    collect_define_loop(src, [st |-> "run", pos |-> p, hd |-> HashDefine("", "", "", "")])

read_structure_member_match(src, s) ==
    LET e == ParserNext(src, s.pos)
        q == Advance(src, s.pos)
    IN  CASE e.t = "Err" -> Return(s, "err", q)
          [] e.t = "StartElement" ->
                With({ IF r.st # "ok" THEN Return(s, r.st, r.pos)
                       ELSE CASE e.name = "name" ->
                                   [s EXCEPT !.pos = r.pos, !.param.par_name = r.text]
                              [] e.name = "type" ->
                                   [s EXCEPT !.pos = r.pos, !.param.par_type = r.text]
                              [] e.name = "argsstring" ->
                                   [s EXCEPT !.pos = r.pos, !.param.par_args = r.text]
                              [] e.name = "detaileddescription" ->
                                   [s EXCEPT !.pos = r.pos, !.param.par_desc = trim(r.text)]
                              [] e.name = "briefdescription" ->
                                   [s EXCEPT !.pos = r.pos, !.param.par_brief = trim(r.text)]
                              [] OTHER -> Go(s, r.pos)
                       : r \in {collect_text(src, q, e.name)} })
          [] e.t = "EndElement" -> Return(s, "ok", q)
          [] e.t = "Characters" -> Go(s, q)
          [] OTHER -> Return(s, "hang", q)

RECURSIVE read_structure_member_loop(_, _)
read_structure_member_loop(src, s) ==
    IF s.st # "run" THEN s
    ELSE read_structure_member_loop(src, read_structure_member_match(src, s))

read_structure_member(src, p) ==
    read_structure_member_loop(src,
        [st |-> "run", pos |-> p, param |-> FnParam("", "", None, "", "", "")])

collect_enum_match(src, s) ==
    LET e == ParserNext(src, s.pos)
        q == Advance(src, s.pos)
    IN  CASE e.t = "Err" -> Return(s, "err", q)
          [] e.t = "StartElement" ->
                IF e.name = "enumvalue"
                THEN With({ IF r.st # "ok" THEN Return(s, r.st, r.pos)
                            ELSE [s EXCEPT !.pos = r.pos,
                                           !.sinfo.str_members = Append(@, r.param)]
                            : r \in {read_structure_member(src, q)} })
                ELSE With({ IF r.st # "ok" THEN Return(s, r.st, r.pos)
                            ELSE CASE e.name = "name" ->
                                        [s EXCEPT !.pos = r.pos, !.sinfo.str_name = r.text]
                                   [] e.name = "briefdescription" ->
                                        [s EXCEPT !.pos = r.pos, !.sinfo.str_brief = r.text]
                                   [] e.name = "detaileddescription" ->
                                        [s EXCEPT !.pos = r.pos, !.sinfo.str_description = r.text]
                                   [] OTHER -> Go(s, r.pos)
                            : r \in {collect_text(src, q, e.name)} })
          [] e.t = "EndElement" -> Return(s, "ok", q)
          [] e.t = "Characters" -> Go(s, q)
          [] OTHER -> Return(s, "ok", q)

RECURSIVE collect_enum_loop(_, _)
collect_enum_loop(src, s) ==
    IF s.st # "run" THEN s
    ELSE collect_enum_loop(src, collect_enum_match(src, s))

collect_enum(src, p, str_type) ==
    collect_enum_loop(src,
        [st |-> "run", pos |-> p, sinfo |-> [NewStructureInfo EXCEPT !.str_type = str_type]])

\* read_file with the General Document pushed before the function Documents
FinishGeneral_First(functions, general, defines, headerfile) ==
    <<[general EXCEPT !.fn_name = headerfile, !.fn_defines = defines]>> \o functions

\* read_file, lines 847-851: the General Document closes the sequence
FinishGeneral(functions, general, defines, headerfile) ==
    Append(functions, [general EXCEPT !.fn_name = headerfile, !.fn_defines = defines])

\* s.headerfile is opt.headerfile: it keeps what was assigned to it when
\* read_file fails
read_file_match(src, s) ==
    LET e == ParserNext(src, s.pos)
        q == Advance(src, s.pos)
    IN  CASE e.t = "Err" -> Return(s, "err", q)
          [] e.t = "StartElement" ->
                CASE e.name = "memberdef" /\ get_attr(e, "kind") = "function" ->
                        With({ IF r.st # "ok" THEN Return(s, r.st, r.pos)
                               ELSE [s EXCEPT !.pos = r.pos, !.functions = r.functions,
                                              !.structures = r.structures]
                               : r \in {collect_function_info(src, q, s.functions, s.structures)} })
                  [] e.name = "memberdef" /\ get_attr(e, "kind") = "define" ->
                        With({ IF r.st # "ok" THEN Return(s, r.st, r.pos)
                               ELSE [s EXCEPT !.pos = r.pos, !.defines = Append(@, r.hd)]
                               : r \in {collect_define(src, q)} })
                  [] e.name = "memberdef" /\ get_attr(e, "kind") = "enum" ->
                        With({ IF r.st = "hang" THEN Return(s, r.st, r.pos)
                               ELSE IF r.st = "ok"
                               THEN [s EXCEPT !.pos = r.pos,
                                       !.structures = MapInsert(@, get_attr(e, "id"), r.sinfo)]
                               ELSE Go(s, r.pos)
                               : r \in {collect_enum(src, q, "Enum")} })
                  [] e.name = "memberdef" /\ get_attr(e, "kind") = "typedef" ->
                        With({ IF r.st # "ok" THEN Return(s, r.st, r.pos) ELSE Go(s, r.pos)
                               : r \in {collect_text(src, q, e.name)} })
                  [] e.name = "memberdef"
                     /\ get_attr(e, "kind") \notin {"function", "define", "enum", "typedef"} ->
                        Go(s, q)
                  [] e.name = "compoundname" ->
                        IF s.headerfile = DefaultHeaderfile
                        THEN With({ IF r.st # "ok" THEN Return(s, r.st, r.pos)
                                    ELSE [s EXCEPT !.pos = r.pos, !.headerfile = r.text]
                                    : r \in {collect_text(src, q, e.name)} })
                        ELSE Go(s, q)
                  [] e.name = "briefdescription" ->
                        With({ IF r.st # "ok" THEN Return(s, r.st, r.pos)
                               ELSE [s EXCEPT !.pos = r.pos, !.general.fn_brief = @ \o r.text]
                               : r \in {collect_text(src, q, e.name)} })
                  [] e.name = "detaileddescription" ->
                        With({ IF r.st # "ok" THEN Return(s, r.st, r.pos)
                               ELSE [s EXCEPT !.pos = r.pos, !.general = r.function]
                               : r \in {collect_detail_bits(src, q, e.name, s.general)} })
                  [] OTHER ->
                        With({ IF r.st # "ok" THEN Return(s, r.st, r.pos) ELSE Go(s, r.pos)
                               : r \in {parse_standard_elements(src, q, e.name, e)} })
          [] e.t \in {"EndElement", "Characters"} -> Go(s, q)
          [] OTHER ->
                [s EXCEPT !.st = "ok", !.pos = q,
                          !.functions = FinishGeneral(@, s.general, s.defines, s.headerfile)]

RECURSIVE read_file_loop(_, _)
read_file_loop(src, s) ==
    IF s.st # "run" THEN s
    ELSE read_file_loop(src, read_file_match(src, s))

read_file(src, headerfile, functions, structures) ==
    read_file_loop(src,
        [st |-> "run", pos |-> 1, headerfile |-> headerfile, functions |-> functions,
         structures |-> structures, defines |-> <<>>, general |-> NewFunctionInfo])

(***************************************************************************)
(* Structure Resolver.  The directory of per-structure sources maps a       *)
(* reference id R to the reader of <xml_dir>/R.xml, or to Missing when the  *)
(* file cannot be opened.                                                   *)
(***************************************************************************)
read_structure_match(src, s) ==
    LET e == ParserNext(src, s.pos)
        q == Advance(src, s.pos)
    IN  CASE e.t = "Err" -> Return(s, "err", q)
          [] e.t = "StartElement" ->
                CASE e.name \in {"compoundname", "briefdescription", "includes",
                                 "detaileddescription"} ->
                        With({ IF r.st # "ok" THEN Return(s, r.st, r.pos)
                               ELSE CASE e.name = "compoundname" ->
                                           [s EXCEPT !.pos = r.pos, !.sinfo.str_name = r.text]
                                      [] e.name = "briefdescription" ->
                                           [s EXCEPT !.pos = r.pos, !.sinfo.str_brief = r.text]
                                      [] e.name = "detaileddescription" ->
                                           [s EXCEPT !.pos = r.pos, !.sinfo.str_description = r.text]
                                      [] OTHER -> Go(s, r.pos)
                               : r \in {collect_text(src, q, e.name)} })
                  [] e.name = "memberdef" ->
                        With({ IF r.st # "ok" THEN Return(s, r.st, r.pos)
                               ELSE [s EXCEPT !.pos = r.pos,
                                              !.sinfo.str_members = Append(@, r.param)]
                               : r \in {read_structure_member(src, q)} })
                  [] OTHER -> Go(s, q)
          [] e.t = "EndElement" ->
                IF e.name = "compounddef" THEN Return(s, "ok", q) ELSE Go(s, q)
          [] e.t = "Characters" -> Go(s, q)
          [] OTHER -> Return(s, "hang", q)

RECURSIVE read_structure_loop(_, _)
read_structure_loop(src, s) ==
    IF s.st # "run" THEN s
    ELSE read_structure_loop(src, read_structure_match(src, s))

read_structure(src, p, str_type) ==
    read_structure_loop(src,
        [st |-> "run", pos |-> p, sinfo |-> [NewStructureInfo EXCEPT !.str_type = str_type]])

read_structure_file_match(src, s) ==
    LET e == ParserNext(src, s.pos)
        q == Advance(src, s.pos)
    IN  CASE e.t = "Err" -> Return(s, "err", q)
          [] e.t = "StartElement" ->
                CASE e.name = "compounddef" ->
                        With({ IF r.st = "hang" THEN Return(s, r.st, r.pos)
                               ELSE IF r.st = "ok"
                               THEN [s EXCEPT !.pos = r.pos, !.refid = get_attr(e, "id"),
                                              !.sinfo = r.sinfo]
                               ELSE Go(s, r.pos)
                               : r \in {read_structure(src, q, "Struct")} })
                  [] e.name \in {"briefdescription", "detaileddescription"} ->
                        With({ IF r.st # "ok" THEN Return(s, r.st, r.pos)
                               ELSE IF e.name = "briefdescription"
                               THEN [s EXCEPT !.pos = r.pos, !.sinfo.str_brief = r.text]
                               ELSE [s EXCEPT !.pos = r.pos, !.sinfo.str_description = r.text]
                               : r \in {collect_text(src, q, e.name)} })
                  [] OTHER -> Go(s, q)
          [] e.t \in {"EndElement", "Characters"} -> Go(s, q)
          [] OTHER -> Return(s, "ok", q)

RECURSIVE read_structure_file_loop(_, _)
read_structure_file_loop(src, s) ==
    IF s.st # "run" THEN s
    ELSE read_structure_file_loop(src, read_structure_file_match(src, s))

read_structure_file(src, str_type) ==
    read_structure_file_loop(src,
        [st |-> "run", pos |-> 1, refid |-> "",
         sinfo |-> [NewStructureInfo EXCEPT !.str_type = str_type]])

\* File::open of the per-structure source of refid
OpenStructureFile(dir, refid) ==
    IF refid \in DOMAIN dir THEN dir[refid] ELSE Missing

\* One turn of the loop of read_structures_files, for the entry (refid, s)
ResolveOne(dir, refid, s, filled) ==
    CASE s.str_type = "Enum" -> [st |-> "ok", filled |-> MapInsert(filled, refid, s)]
      [] s.str_type = "Unknown" -> [st |-> "ok", filled |-> filled]
      [] OTHER ->
            LET f == OpenStructureFile(dir, refid)
            IN  IF f = Missing THEN [st |-> "ok", filled |-> filled]
                ELSE With({ IF r.st = "hang" THEN [st |-> "hang", filled |-> filled]
                            ELSE IF r.st = "ok"
                            THEN [st |-> "ok", filled |-> MapInsert(filled, r.refid, r.sinfo)]
                            ELSE [st |-> "ok", filled |-> filled]
                            : r \in {read_structure_file(f, "Struct")} })

\* read_structures_files: `order` is the order in which the HashMap hands out
\* its entries
RECURSIVE read_structures_files(_, _, _, _)
read_structures_files(dir, structures, order, filled) ==
    IF order = <<>> THEN [st |-> "ok", filled |-> filled]
    ELSE With({ IF r.st # "ok" THEN r
                ELSE read_structures_files(dir, structures, Tail(order), r.filled)
                : r \in {ResolveOne(dir, order[1], structures[order[1]], filled)} })

\* The orders in which a HashMap with the keys S can be iterated
Orders(S) ==
    {o \in [1..Cardinality(S) -> S] : \A k \in S : \E i \in 1..Cardinality(S) : o[i] = k}

(***************************************************************************)
(* Layout/Formatting Engine.  The artifact being written is a string; a     *)
(* printing procedure returns [st, f]: st is "ok", or "overflow" when the   *)
(* unsigned pad width of print_param would go below zero.                   *)
(***************************************************************************)
writeln(f, s) == f \o s \o "\n"

\* if cond { writeln!(f, s) }
writeln_if(cond, f, s) == IF cond THEN writeln(f, s) ELSE f

Blanks == "                                                                                "

\* n spaces
RECURSIVE Spaces(_)
Spaces(n) ==
    IF n <= 0 THEN ""
    ELSE IF n <= Len(Blanks) THEN SubSeq(Blanks, 1, n)
    ELSE Blanks \o Spaces(n - Len(Blanks))

\* {:<width$}
PadRight(s, width) == s \o Spaces(width - Len(s))

\* position of the first "\n" of s at or after i, 0 if there is none
NewlineAt(s, i) ==
    IF \E n \in i..Len(s) : CharAt(s, n) = "\n"
    THEN CHOOSE n \in i..Len(s) :
            CharAt(s, n) = "\n" /\ \A m \in i..(n - 1) : CharAt(s, m) # "\n"
    ELSE 0

\* str::lines
RECURSIVE lines(_)
lines(s) ==
    IF s = "" THEN <<>>
    ELSE LET n == NewlineAt(s, 1)
         IN  IF n = 0 THEN <<s>>
             ELSE <<SubSeq(s, 1, n - 1)>> \o lines(SubSeq(s, n + 1, Len(s)))

starts_with(s, prefix) == Len(s) >= Len(prefix) /\ SubSeq(s, 1, Len(prefix)) = prefix

\* str::split_whitespace: the maximal runs of characters that are not white
\* space, in the order of their first characters
WordStarts(s) ==
    {i \in 1..Len(s) :
        ~IsWhitespace(CharAt(s, i)) /\ (i = 1 \/ IsWhitespace(CharAt(s, i - 1)))}

WordEnd(s, i) ==
    CHOOSE j \in i..Len(s) :
        /\ (j = Len(s) \/ IsWhitespace(CharAt(s, j + 1)))
        /\ \A n \in i..j : ~IsWhitespace(CharAt(s, n))

split_whitespace(s) ==
    With({ [k \in 1..Cardinality(starts) |->
               With({ SubSeq(s, i, WordEnd(s, i))
                      : i \in {n \in starts : Cardinality({m \in starts : m < n}) = k - 1} })]
           : starts \in {WordStarts(s)} })

LowerCase == "abcdefghijklmnopqrstuvwxyz"

UpperCase == "ABCDEFGHIJKLMNOPQRSTUVWXYZ"

UpperChar(c) ==
    IF \E i \in 1..Len(LowerCase) : CharAt(LowerCase, i) = c
    THEN CharAt(UpperCase, CHOOSE i \in 1..Len(LowerCase) : CharAt(LowerCase, i) = c)
    ELSE c

RECURSIVE to_ascii_uppercase(_)
to_ascii_uppercase(s) ==
    IF s = "" THEN "" ELSE UpperChar(CharAt(s, 1)) \o to_ascii_uppercase(SubSeq(s, 2, Len(s)))

\* len_without_formatting: a character counts unless it is a backslash or
\* follows one (last_was_escape is true exactly after a backslash)
len_without_formatting(param) ==
    Cardinality({i \in 1..Len(param) :
                    CharAt(param, i) # "\\" /\ (i = 1 \/ CharAt(param, i - 1) # "\\")})

\* print_long_string: the lines l of s, one after the other
RECURSIVE print_long_string_loop(_, _, _)
print_long_string_loop(f, ls, in_nf) ==
    IF ls = <<>> THEN f
    ELSE LET l == ls[1]
             in1 == in_nf \/ starts_with(l, ".nf")
             in2 == in1 /\ ~starts_with(l, ".fi")
         IN  print_long_string_loop(
                 writeln_if(starts_with(l, ".fi"),
                     writeln_if(~in1,
                         writeln(writeln_if(starts_with(l, ".nf"), f, ""), l),
                         ".PP"),
                     ""),
                 Tail(ls), in2)

\* print_long_string whose in_nf starts out true
print_long_string_InBlockFirst(f, s) == print_long_string_loop(f, lines(s), TRUE)

print_long_string(f, s) == print_long_string_loop(f, lines(s), FALSE)

RECURSIVE print_long_structure_comment_loop(_, _, _)
print_long_structure_comment_loop(f, words, column) ==
    IF words = <<>> THEN f
    ELSE LET word == words[1]
             c1 == column + Len(word)
         IN  IF c1 > 80
             THEN print_long_structure_comment_loop(f \o "\n     *" \o " " \o word, Tail(words), 7)
             ELSE print_long_structure_comment_loop(f \o " " \o word, Tail(words), c1)

print_long_structure_comment(f, comment) ==
    writeln(print_long_structure_comment_loop(writeln(f, "    \\fP/*") \o "     *",
                                              split_whitespace(comment), 7),
            "\n     */")

\* print_param without its function-pointer case
NormalizePointer_NoFunctionPointer(par_type) ==
    IF par_type # "" /\ CharAt(par_type, Len(par_type)) = "*"
    THEN IF Len(par_type) > 1 /\ CharAt(par_type, Len(par_type) - 1) = "*"
         THEN [asterisks |-> "**", formatted_type |-> SubSeq(par_type, 1, Len(par_type) - 2)]
         ELSE [asterisks |-> " *", formatted_type |-> SubSeq(par_type, 1, Len(par_type) - 1)]
    ELSE [asterisks |-> "  ", formatted_type |-> par_type]

\* print_param, lines 1224-1245: the type without its trailing pointer marker,
\* and the marker column
NormalizePointer(par_type) ==
    LET typelen == Len(par_type)
    IN  IF par_type # "" /\ CharAt(par_type, typelen) = "*"
        THEN IF typelen > 1 /\ CharAt(par_type, typelen - 1) = "*"
             THEN [asterisks |-> "**", formatted_type |-> SubSeq(par_type, 1, typelen - 2)]
             ELSE IF typelen > 1 /\ CharAt(par_type, typelen - 1) = "("
             THEN [asterisks |-> "(*", formatted_type |-> SubSeq(par_type, 1, typelen - 2)]
             ELSE [asterisks |-> " *", formatted_type |-> SubSeq(par_type, 1, typelen - 1)]
        ELSE [asterisks |-> "  ", formatted_type |-> par_type]

\* print_param, line 1264, in unsigned arithmetic: -1 when a step goes below zero
PadWidth(pi, name_field_width, delimeter) ==
    LET a == name_field_width - Len(pi.par_name)
        b == a - Len(pi.par_args)
        c == (1 + b) - Len(delimeter)
    IN  IF a < 0 \/ b < 0 \/ c < 0 THEN -1 ELSE c

\* print_param, lines 1253-1260: the entry up to its delimiter
ParamEntry(pi, type_field_width, bold, delimeter) ==
    LET n == NormalizePointer(pi.par_type)
    IN  (IF bold THEN "    \\fB" ELSE "    \\fR")
        \o PadRight(n.formatted_type, type_field_width) \o n.asterisks
        \o "\\fI" \o pi.par_name \o "\\fB" \o pi.par_args \o "\\fR" \o delimeter

\* print_param without either rendering of the description
print_param_NoComment(f, pi, type_field_width, name_field_width, bold, delimeter) ==
    [st |-> "ok", f |-> f \o ParamEntry(pi, type_field_width, bold, delimeter) \o "\n"]

print_param(f, pi, type_field_width, name_field_width, bold, delimeter) ==
    LET comment_len == len_without_formatting(pi.par_desc)
        pad_width == PadWidth(pi, name_field_width, delimeter)
        inline == comment_len > 0 /\ comment_len <= MAX_STRUCT_COMMENT_LEN
                  /\ name_field_width > 0
    IN  [st |-> IF inline /\ pad_width < 0 THEN "overflow" ELSE "ok",
         f |-> (IF comment_len > MAX_STRUCT_COMMENT_LEN
                THEN print_long_structure_comment(f, pi.par_desc)
                ELSE f)
               \o ParamEntry(pi, type_field_width, bold, delimeter)
               \o (IF inline
                   THEN IF pad_width < 0 THEN ""
                        ELSE writeln("\\fP " \o Spaces(pad_width) \o " /* "
                                     \o pi.par_desc \o " */", "")
                   ELSE writeln("", ""))]

\* The entries of a parameter or member list, each but the last followed by
\* the delimiter
RECURSIVE print_params(_, _, _, _, _, _)
print_params(f, ps, type_field_width, name_field_width, bold, delimeter) ==
    IF ps = <<>> THEN [st |-> "ok", f |-> f]
    ELSE With({ IF r.st # "ok" THEN r
                ELSE print_params(r.f, Tail(ps), type_field_width, name_field_width, bold, delimeter)
                : r \in {print_param(f, ps[1], type_field_width, name_field_width, bold,
                                     IF Len(ps) = 1 THEN "" ELSE delimeter)} })

Max(a, b) == IF a > b THEN a ELSE b

\* print_structure, lines 1281-1290
RECURSIVE MaxMemberTypeLength(_)
MaxMemberTypeLength(ps) ==
    IF ps = <<>> THEN 0 ELSE Max(Len(ps[1].par_type), MaxMemberTypeLength(Tail(ps)))

\* the width of the longest member name, the args left out
RECURSIVE MaxMemberNameLength_NamesOnly(_)
MaxMemberNameLength_NamesOnly(ps) ==
    IF ps = <<>> THEN 0
    ELSE Max(Len(ps[1].par_name), MaxMemberNameLength_NamesOnly(Tail(ps)))

RECURSIVE MaxMemberNameLength(_)
MaxMemberNameLength(ps) ==
    IF ps = <<>> THEN 0
    ELSE Max(Len(ps[1].par_name) + Len(ps[1].par_args), MaxMemberNameLength(Tail(ps)))

print_structure(f, si) ==
    LET f1 == writeln_if(si.str_brief # "", f, si.str_brief)
        f2 == writeln_if(si.str_description # "", f1, si.str_description)
        f3 == writeln(writeln(writeln(f2, ""), ".nf"), "\\fB")
        f4 == writeln(f3, (CASE si.str_type = "Enum" -> "enum "
                             [] si.str_type = "Struct" -> "struct "
                             [] OTHER -> "??? ") \o si.str_name \o " {")
    IN  With({ IF r.st # "ok" THEN r
               ELSE [st |-> "ok", f |-> writeln(writeln(writeln(r.f, "};\\fP"), ".PP"), ".fi")]
               : r \in {print_params(f4, si.str_members, MaxMemberTypeLength(si.str_members),
                                     MaxMemberNameLength(si.str_members), FALSE, ";")} })

\* print_man_page, lines 1353-1357: the width of the type column
RECURSIVE MaxParamTypeLen(_)
MaxParamTypeLen(ps) ==
    IF ps = <<>> THEN 0
    ELSE IF Len(ps[1].par_type) < MAX_PRINT_PARAM_LEN
    THEN Max(Len(ps[1].par_type), MaxParamTypeLen(Tail(ps)))
    ELSE MaxParamTypeLen(Tail(ps))

\* print_man_page, lines 1361-1363
NumParamDescs(ps) ==
    Cardinality({i \in 1..Len(ps) : ps[i].par_desc # "" /\ ps[i].par_type # ""})

\* print_man_page, line 1326
SkipsPage(opt, function) == function.fn_name = opt.headerfile /\ ~opt.print_general

PrintName(f, function) ==
    LET f1 == writeln(writeln(f, ".SH NAME"), ".PP")
    IN  IF function.fn_brief # ""
        THEN writeln(f1, function.fn_name \o " \\- " \o function.fn_brief)
        ELSE writeln(f1, function.fn_name)

PrintSynopsis(f, opt, function) ==
    LET f1 == writeln(writeln(writeln(f, ".SH SYNOPSIS"), ".PP"), ".nf")
        f2 == writeln(f1, ".B #include <" \o opt.header_prefix \o opt.headerfile \o ">")
    IN  IF function.fn_def # ""
        THEN With({ IF r.st # "ok" THEN r
                    ELSE [st |-> "ok", f |-> writeln(writeln(r.f, ");"), ".fi")]
                    : r \in {print_params(writeln(writeln(f2, ".sp"),
                                                  "\\fB" \o function.fn_def \o "\\fP("),
                                          function.fn_args, MaxParamTypeLen(function.fn_args),
                                          0, TRUE, ",")} })
        ELSE [st |-> "ok", f |-> f2]

RECURSIVE PrintParameterEntries(_, _)
PrintParameterEntries(f, ps) ==
    IF ps = <<>> THEN f
    ELSE PrintParameterEntries(
            writeln(writeln(f, ".TP"), "\\fB" \o ps[1].par_name \o "\\fP " \o ps[1].par_desc),
            Tail(ps))

PrintParameters(f, opt, function) ==
    IF opt.print_params /\ NumParamDescs(function.fn_args) > 0
    THEN PrintParameterEntries(writeln(writeln(f, ".SH PARAMETERS"), ".PP"), function.fn_args)
    ELSE f

PrintDescription(f, function) ==
    IF function.fn_detail # ""
    THEN print_long_string(writeln(writeln(f, ".SH DESCRIPTION"), ".PP"), function.fn_detail)
    ELSE f

\* print_man_page whose flag `first` is never cleared
RECURSIVE PrintStructures_HeaderEach(_, _, _, _)
PrintStructures_HeaderEach(f, refids, structures, first) ==
    IF refids = <<>> THEN [st |-> "ok", f |-> f]
    ELSE IF refids[1] \in DOMAIN structures
    THEN With({ IF r.st # "ok" THEN r
                ELSE PrintStructures_HeaderEach(r.f, Tail(refids), structures, first)
                : r \in {print_structure(
                            IF first THEN writeln(writeln(f, ".SH STRUCTURES"), ".PP") ELSE f,
                            structures[refids[1]])} })
    ELSE PrintStructures_HeaderEach(f, Tail(refids), structures, first)

\* print_man_page, lines 1416-1429
RECURSIVE PrintStructures(_, _, _, _)
PrintStructures(f, refids, structures, first) ==
    IF refids = <<>> THEN [st |-> "ok", f |-> f]
    ELSE IF refids[1] \in DOMAIN structures
    THEN With({ IF r.st # "ok" THEN r
                ELSE PrintStructures(r.f, Tail(refids), structures, FALSE)
                : r \in {print_structure(
                            IF first THEN writeln(writeln(f, ".SH STRUCTURES"), ".PP") ELSE f,
                            structures[refids[1]])} })
    ELSE PrintStructures(f, Tail(refids), structures, first)

RECURSIVE PrintRetvals(_, _)
PrintRetvals(f, rvs) ==
    IF rvs = <<>> THEN f
    ELSE PrintRetvals(
            writeln(writeln(f, ".TP"), "\\fB" \o rvs[1].ret_name \o "\\fR " \o rvs[1].ret_desc),
            Tail(rvs))

PrintReturnValue(f, function) ==
    IF function.fn_returnval # ""
    THEN writeln(PrintRetvals(writeln(writeln(writeln(writeln(f, ".SH RETURN VALUE"), ".PP"),
                                              function.fn_returnval), ".br"),
                              function.fn_retvals),
                 ".PP")
    ELSE f

\* print_man_page without its test of the name of the define
PrintDefine_AnyCase(f, d) ==
    writeln(writeln(f, "#define " \o d.hd_name \o " " \o d.hd_init), ".br")

\* print_man_page, lines 1446-1461
PrintDefine(f, d) ==
    IF d.hd_name = to_ascii_uppercase(d.hd_name)
    THEN LET f1 == IF d.hd_brief # ""
                   THEN writeln(writeln(writeln(f, ".PP"), d.hd_brief), ".br")
                   ELSE f
             f2 == IF d.hd_desc # ""
                   THEN writeln(writeln(writeln(f1, ".br"), d.hd_desc), ".br")
                   ELSE f1
         IN  writeln(writeln(f2, "#define " \o d.hd_name \o " " \o d.hd_init), ".br")
    ELSE f

RECURSIVE PrintDefineEntries(_, _)
PrintDefineEntries(f, ds) ==
    IF ds = <<>> THEN f ELSE PrintDefineEntries(PrintDefine(f, ds[1]), Tail(ds))

PrintDefines(f, function) ==
    IF function.fn_defines # <<>>
    THEN PrintDefineEntries(writeln(writeln(f, ".SH DEFINES"), ".PP"), function.fn_defines)
    ELSE f

PrintNote(f, function) ==
    IF function.fn_note # ""
    THEN print_long_string(writeln(writeln(f, ".SH NOTE"), ".PP"), function.fn_note)
    ELSE f

\* print_man_page, lines 1477-1489
RECURSIVE PrintSeeAlsoEntries(_, _, _, _, _)
PrintSeeAlsoEntries(f, opt, function, functions, num_func) ==
    IF num_func > Len(functions) THEN f
    ELSE LET func == functions[num_func]
             delim == IF num_func = Len(functions) THEN "" ELSE ", "
         IN  PrintSeeAlsoEntries(
                 IF func.fn_name # function.fn_name
                 THEN writeln(f, "\\fI" \o func.fn_name \o "\\fP(" \o opt.man_section \o ")" \o delim)
                 ELSE f,
                 opt, function, functions, num_func + 1)

PrintSeeAlso(f, opt, function, functions) ==
    PrintSeeAlsoEntries(
        writeln(writeln(writeln(writeln(f, ".SH SEE ALSO"), ".PP"), ".nh"), ".ad l"),
        opt, function, functions, 1)

PrintCopyright(f, copyright) ==
    IF copyright # ""
    THEN writeln(writeln(writeln(f, ".SH COPYRIGHT"), ".PP"), copyright)
    ELSE f

PrintTitle(opt, man_date, function) ==
    writeln(writeln("", ".\\\"  Automatically generated man page, do not edit"),
            ".TH " \o to_ascii_uppercase(function.fn_name) \o " " \o opt.man_section \o " "
            \o man_date \o " \"" \o opt.package_name \o "\" \"" \o opt.header \o "\"")

\* print_man_page once the destination file has been created: st is "skipped"
\* (nothing is written), "ok" or "overflow" (what was written before the
\* overflow is in f).  The artifact is only ever appended to, so it is what
\* the sections write, each to an empty f, one after the other.
print_man_page(opt, man_date, function, functions, structures, copyright) ==
    IF SkipsPage(opt, function) THEN [st |-> "skipped", f |-> ""]
    ELSE With({ [st |-> IF syn.st # "ok" THEN syn.st ELSE str.st,
                 f |-> PrintTitle(opt, man_date, function)
                       \o PrintName("", function)
                       \o syn.f
                       \o (IF syn.st # "ok" THEN ""
                           ELSE PrintParameters("", opt, function)
                                \o PrintDescription("", function)
                                \o str.f
                                \o (IF str.st # "ok" THEN ""
                                    ELSE PrintReturnValue("", function)
                                         \o PrintDefines("", function)
                                         \o PrintNote("", function)
                                         \o PrintSeeAlso("", opt, function, functions)
                                         \o PrintCopyright("", copyright)))]
                : syn \in {PrintSynopsis("", opt, function)},
                  str \in {PrintStructures("", function.fn_refids, structures, TRUE)} })

(***************************************************************************)
(* Inputs: doxygen XML as event streams.  whitespace_to_characters(true)    *)
(* turns the white space between elements into Characters events.           *)
(***************************************************************************)
MaxItems == 2

MaxFiles == 2

RefIds == {"sa", "sb"}

Elem(name, content) == <<Start(name)>> \o content \o <<EndElement(name)>>

TextElem(name, s) == Elem(name, <<Characters(s)>>)

Para(s) == Elem("para", <<Characters(s)>>)

\* <param><type><ref refid="R">struct R</ref> *</type><declname>n</declname></param>
RefParam(refid, declname) ==
    Elem("param",
         Elem("type", <<StartElement("ref", "", "", refid, ""), Characters("struct " \o refid),
                        EndElement("ref"), Characters(" *")>>)
         \o TextElem("declname", declname))

PlainParam(type, declname) ==
    Elem("param", TextElem("type", type) \o TextElem("declname", declname))

FunctionDef(name, params, detail) ==
    <<StartElement("memberdef", "function", "a_8h_1" \o name, "", ""), Characters("\n")>>
    \o TextElem("type", "int") \o TextElem("definition", "int " \o name)
    \o TextElem("argsstring", "()") \o TextElem("name", name)
    \o params
    \o Elem("briefdescription", Para("Does " \o name \o ". "))
    \o Elem("detaileddescription", detail)
    \o Elem("location", <<>>)
    \o <<Characters("\n"), EndElement("memberdef")>>

DefineDef(name) ==
    <<StartElement("memberdef", "define", "a_8h_1" \o name, "", "")>>
    \o TextElem("name", name) \o TextElem("initializer", "64")
    \o Elem("briefdescription", Para("Limit"))
    \o Elem("detaileddescription", <<>>)
    \o Elem("location", <<>>)
    \o <<EndElement("memberdef")>>

\* <parameteritem> of a <parameterlist>: a name and its description
ParameterItem(name, desc) ==
    Elem("parameteritem",
         Elem("parameternamelist", TextElem("parametername", name))
         \o Elem("parameterdescription", Para(desc)))

ParameterList(kind, items) ==
    <<StartElement("parameterlist", kind, "", "", "")>> \o items \o <<EndElement("parameterlist")>>

\* <simplesect kind="K"> ... </simplesect>
SimpleSect(kind, content) ==
    <<StartElement("simplesect", kind, "", "", "")>> \o content \o <<EndElement("simplesect")>>

\* <param><type>unsigned <bold>int</bold></type><declname>n</declname></param>:
\* the type holds a tag that parse_standard_elements does not know
MarkedTypeParam(declname) ==
    Elem("param",
         Elem("type", <<Characters("unsigned ")>> \o TextElem("bold", "int"))
         \o TextElem("declname", declname))

\* Descriptions of 58 and of 56 characters, over MAX_STRUCT_COMMENT_LEN
LongParamDesc == "the buffer that receives the text read from the connection"

LongMemberDesc == "opaque context handed back to the callback on completion"

EnumValue(name, init) ==
    Elem("enumvalue", TextElem("name", name) \o TextElem("initializer", init)
                      \o Elem("briefdescription", Para("value " \o name))
                      \o Elem("detaileddescription", <<>>))

EnumDef(id, name) ==
    <<StartElement("memberdef", "enum", id, "", "")>>
    \o TextElem("name", name)
    \o EnumValue("ONE", "= 1") \o EnumValue("TWO", "= 2")
    \o Elem("briefdescription", <<>>)
    \o <<EndElement("memberdef")>>

TypedefDef(name) ==
    <<StartElement("memberdef", "typedef", "a_8h_1" \o name, "", "")>>
    \o TextElem("type", "int") \o TextElem("name", name)
    \o Elem("briefdescription", Para("A type"))
    \o <<EndElement("memberdef")>>

\* <memberdef kind="variable">: a kind read_file has no procedure for
VariableDef(name) ==
    <<StartElement("memberdef", "variable", "a_8h_1" \o name, "", "")>>
    \o TextElem("type", "int") \o TextElem("name", name)
    \o Elem("briefdescription", Para("A counter"))
    \o Elem("detaileddescription", Para("Counts the calls."))
    \o <<EndElement("memberdef")>>

\* <memberdef kind="function"> with an element the Builder has no procedure
\* for (templateparamlist), nested in an element of the same name
NestedDef(name) ==
    <<StartElement("memberdef", "function", "a_8h_1" \o name, "", "")>>
    \o TextElem("type", "void") \o TextElem("definition", "void " \o name)
    \o TextElem("argsstring", "()") \o TextElem("name", name)
    \o Elem("templateparamlist",
            Elem("templateparamlist", <<Characters("T")>>) \o <<Characters("U")>>)
    \o Elem("briefdescription", Para("Nests. "))
    \o Elem("detaileddescription", <<>>)
    \o <<EndElement("memberdef")>>

FileDescription ==
    Elem("briefdescription", Para("The header"))
    \o Elem("detaileddescription", Para("All about it."))

\* A type name of n characters
LongestTypeName ==
    "tttttttttttttttttttttttttttttttttttttttttttttttttttttttttttttttttttttttttttttttttttttttttt"

TypeOfLen(n) == SubSeq(LongestTypeName, 1, n)

\* The top-level items a primary source is made of
Items ==
    { FunctionDef("f", RefParam("sb", "p") \o RefParam("sa", "q") \o RefParam("sb", "r"),
                  Para("Uses two structures.")
                  \o Elem("para", <<Characters("Fills both. ")>>
                                  \o ParameterList("param", ParameterItem("p", "the first"))
                                  \o SimpleSect("return", Para("the number of bytes read"))
                                  \o ParameterList("retval", ParameterItem("0", "end of input"))
                                  \o ParameterList("retval", ParameterItem("-1", "failure"))
                                  \o SimpleSect("note", Para("Blocks.")))),
      FunctionDef("g", PlainParam("int", "count"),
                  <<Characters("Counts the entries. ")>>
                  \o Elem("para", <<Characters("Stops at the first gap. ")>>
                                  \o ParameterList("retval", ParameterItem("0", "no entry")))),
      FunctionDef("h", PlainParam(TypeOfLen(MAX_PRINT_PARAM_LEN), "a")
                       \o PlainParam("char **", "b") \o PlainParam("void(*", "cb")
                       \o PlainParam("int(", "open"), <<>>),
      FunctionDef("k", PlainParam("int", "n") \o PlainParam("char *", "buf")
                       \o MarkedTypeParam("flags"),
                  Para("Reads.")
                  \o Elem("para", ParameterList("param",
                                     ParameterItem("n", "number of bytes")
                                     \o ParameterItem("buf", LongParamDesc)))),
      DefineDef("MAXSIZE"),
      DefineDef("maxsize"),
      EnumDef("sa", "sa_e"),
      TypedefDef("t"),
      FileDescription }

RECURSIVE Flatten(_)
Flatten(ss) == IF ss = <<>> THEN <<>> ELSE ss[1] \o Flatten(Tail(ss))

ItemSeqs == UNION {[1..n -> Items] : n \in 0..MaxItems}

\* <doxygen><compounddef kind="file"><compoundname>H</compoundname> ... 
PrimarySource(header, items) ==
    <<Start("doxygen"), Characters("\n"), StartElement("compounddef", "file", "a_8h", "", "")>>
    \o TextElem("compoundname", header)
    \o Elem("sectiondef", Flatten(items))
    \o <<EndElement("compounddef"), Characters("\n"), EndElement("doxygen")>>

\* The first file of a batch, and the files that may follow it
FirstFiles == {[ev |-> PrimarySource("a.h", items)] : items \in ItemSeqs}

SiblingFiles ==
    { [ev |-> PrimarySource("b.h", <<FunctionDef("g", PlainParam("int", "count"), <<>>)>>)],
      [ev |-> PrimarySource("a.h", <<DefineDef("Max_Size"), DefineDef("MAX_SIZE2"),
                                     NestedDef("n"), VariableDef("v"), FileDescription>>)],
      Missing }

Batches ==
    UNION {{b \in [1..n -> FirstFiles \cup SiblingFiles] :
                /\ b[1] \in FirstFiles
                /\ \A i \in 2..n : b[i] \in SiblingFiles} : n \in 1..MaxFiles}

\* <xml_dir>/R.xml: a struct named R whose compounddef carries the id `id`
StructMember(type, name, desc) ==
    <<StartElement("memberdef", "variable", "", "", "")>>
    \o TextElem("type", type) \o TextElem("name", name) \o TextElem("argsstring", "")
    \o Elem("briefdescription", <<>>)
    \o Elem("detaileddescription", IF desc = "" THEN <<>> ELSE Para(desc))
    \o <<EndElement("memberdef")>>

StructSource(refid, id) ==
    <<Start("doxygen"), StartElement("compounddef", "struct", id, "", "")>>
    \o TextElem("compoundname", refid)
    \o Elem("sectiondef", StructMember("int", refid \o "_len", "length")
                          \o StructMember("char *", "data", "")
                          \o StructMember("void *", "ctx", LongMemberDesc))
    \o Elem("briefdescription", <<>>)
    \o <<EndElement("compounddef"), EndElement("doxygen")>>

\* What <xml_dir>/R.xml can be: absent, a source that reads to its end (its
\* compounddef carrying any id), or a source whose reading fails part-way
StructFiles(refid) ==
    {Missing}
    \cup {[ev |-> StructSource(refid, id), failAt |-> 0] : id \in RefIds}
    \cup {[ev |-> StructSource(refid, refid), failAt |-> 9]}

\* The directories that hold (or lack) a source for each reference id of S
Dirs(S) == {d \in [S -> UNION {StructFiles(r) : r \in S}] : \A r \in S : d[r] \in StructFiles(r)}

\* The reference ids whose per-structure source read_structures_files opens
Placeholders(m) == {r \in DOMAIN m : m[r].str_type = "Struct"}

\* Opt::from_args(): the fields the core reads
Opts ==
    {o \in [headerfile : {DefaultHeaderfile, "g"}, print_general : BOOLEAN,
            print_params : BOOLEAN, print_man : {TRUE}, header_prefix : {"qb/"},
            man_section : {"3"}, package_name : {"Package"},
            header : {"Programmer's Manual"}, manpage_date : {"2010"}] :
        o.print_params => (o.print_general /\ o.headerfile = DefaultHeaderfile)}

HeaderCopyright == "Copyright (C) 2010-2010 Red Hat Inc, All rights reserved"

(***************************************************************************)
(* main: one input file after the other.                                    *)
(*   xml_files   opt.xml_files: the primary sources of the batch            *)
(*   xml_dir     the per-structure sources found under opt.xml_dir for the  *)
(*               placeholders of the input being handled                    *)
(*   args        the options as parsed from the command line                *)
(*   opt         main's mutable copy of the options                         *)
(*   file_idx    the position of the loop over xml_files                    *)
(*   pc          where main is: "main", "read", "resolve", "print", and     *)
(*               "exit", "panicked", "hung" once it has ended               *)
(*   functions, structures, filled_structures   main's locals               *)
(*   fn_idx      the position of the loop of print_man_pages                *)
(*   pages       the artifacts written so far                               *)
(*   outcome     per input file handled so far, how its handling ended      *)
(*   fail_in     where the last read_file failed: the kind of the memberdef *)
(*               being read ("" outside every memberdef), "none" if it      *)
(*               has not failed                                             *)
(*   call        a formatting procedure called on its own: its name, its    *)
(*               argument and, once it has returned, its result             *)
(***************************************************************************)
VARIABLES xml_files, xml_dir, args, opt, file_idx, pc, functions, structures,
          filled_structures, fn_idx, pages, outcome, fail_in, call

vars == <<xml_files, xml_dir, args, opt, file_idx, pc, functions, structures,
          filled_structures, fn_idx, pages, outcome, fail_in, call>>

\* No formatting procedure is being called on its own
NoCall == [fn |-> "none"]

Init ==
    /\ xml_files \in Batches
    /\ xml_dir = [r \in {} |-> Missing]
    /\ args \in Opts
    /\ opt = args
    /\ file_idx = 1
    /\ pc = "main"
    /\ functions = <<>>
    /\ structures = EmptyMap
    /\ filled_structures = EmptyMap
    /\ fn_idx = 1
    /\ pages = <<>>
    /\ outcome = <<>>
    /\ fail_in = "none"
    /\ call = NoCall

\* The kind of the memberdef that is open at position p of the events ev
\* ("" when none is)
OpenMemberdef(ev, p) ==
    LET open == {i \in 1..Len(ev) :
                    /\ i < p
                    /\ ev[i].t = "StartElement" /\ ev[i].name = "memberdef"
                    /\ \A j \in (i + 1)..Len(ev) :
                          j < p => ~(ev[j].t = "EndElement" /\ ev[j].name = "memberdef")}
    IN  IF open = {} THEN "" ELSE ev[CHOOSE i \in open : TRUE].kind

\* The positions at which the reading of a source is made to fail: before
\* the elements the collecting procedures dispatch on, at the close of a
\* name, and at the end of the document; 0 stands for no failure
FailPoints(ev) ==
    {0, Len(ev) + 1}
    \cup {p \in 1..Len(ev) :
            \/ /\ ev[p].t = "StartElement"
               /\ ev[p].name \in {"compoundname", "name", "param", "enumvalue", "para"}
            \/ ev[p].t = "EndElement" /\ ev[p].name = "name"}

\* main, lines 1554-1562: the primary source is opened
OpenFile ==
    /\ pc = "main"
    /\ file_idx <= Len(xml_files)
    /\ xml_files[file_idx] # Missing
    /\ pc' = "read"
    /\ functions' = <<>>
    /\ structures' = EmptyMap
    /\ filled_structures' = EmptyMap
    /\ UNCHANGED <<call, xml_files, xml_dir, args, opt, file_idx, fn_idx, pages, outcome, fail_in>>

\* main, lines 1586-1588: the primary source cannot be opened
OpenFails ==
    /\ pc = "main"
    /\ file_idx <= Len(xml_files)
    /\ xml_files[file_idx] = Missing
    /\ file_idx' = file_idx + 1
    /\ outcome' = Append(outcome, "open_failed")
    /\ UNCHANGED <<call, xml_files, xml_dir, args, opt, pc, functions, structures,
                   filled_structures, fn_idx, pages, fail_in>>

\* main without the `continue` of line 1567: after a failed read_file it goes
\* on to resolve and print what was collected
ReadFile_NoContinue ==
    /\ pc = "read"
    /\ \E failAt \in FailPoints(xml_files[file_idx].ev) :
        \E r \in {read_file([ev |-> xml_files[file_idx].ev, failAt |-> failAt],
                            opt.headerfile, functions, structures)} :
            /\ opt' = [opt EXCEPT !.headerfile = r.headerfile]
            /\ CASE r.st = "ok" ->
                       /\ functions' = r.functions
                       /\ structures' = r.structures
                       /\ pc' = "resolve"
                       /\ UNCHANGED <<file_idx, outcome, fail_in>>
                 [] r.st = "err" ->
                       /\ pc' = "resolve"
                       /\ outcome' = Append(outcome, "read_failed")
                       /\ fail_in' = OpenMemberdef(xml_files[file_idx].ev, failAt)
                       /\ UNCHANGED <<functions, structures, file_idx>>
                 [] OTHER ->
                       /\ pc' = "hung"
                       /\ UNCHANGED <<functions, structures, file_idx, outcome, fail_in>>
    /\ UNCHANGED <<call, xml_files, xml_dir, args, filled_structures, fn_idx, pages>>

\* main, lines 1565-1568: read_file, the reader failing at position failAt
\* (0: it does not fail)
ReadFile ==
    /\ pc = "read"
    /\ \E failAt \in FailPoints(xml_files[file_idx].ev) :
        \E r \in {read_file([ev |-> xml_files[file_idx].ev, failAt |-> failAt],
                            opt.headerfile, functions, structures)} :
            /\ opt' = [opt EXCEPT !.headerfile = r.headerfile]
            /\ CASE r.st = "ok" ->
                       /\ functions' = r.functions
                       /\ structures' = r.structures
                       /\ pc' = "resolve"
                       /\ UNCHANGED <<file_idx, outcome, fail_in>>
                 [] r.st = "err" ->
                       /\ pc' = "main"
                       /\ file_idx' = file_idx + 1
                       /\ outcome' = Append(outcome, "read_failed")
                       /\ fail_in' = OpenMemberdef(xml_files[file_idx].ev, failAt)
                       /\ UNCHANGED <<functions, structures>>
                 [] OTHER ->
                       /\ pc' = "hung"
                       /\ UNCHANGED <<functions, structures, file_idx, outcome, fail_in>>
    /\ UNCHANGED <<call, xml_files, xml_dir, args, filled_structures, fn_idx, pages>>

\* main, lines 1571-1573: read_structures_files, the map handing out its
\* entries in some order, over what the directory of per-structure sources
\* holds for the placeholders of this input
ReadStructuresFiles ==
    /\ pc = "resolve"
    /\ \E dir \in Dirs(Placeholders(structures)), order \in Orders(DOMAIN structures) :
        \E r \in {read_structures_files(dir, structures, order, EmptyMap)} :
            /\ xml_dir' = dir
            /\ filled_structures' = r.filled
            /\ pc' = IF r.st # "ok" THEN "hung" ELSE "print"
    /\ fn_idx' = 1
    /\ UNCHANGED <<call, xml_files, args, opt, file_idx, functions, structures, pages,
                   outcome, fail_in>>

\* print_man_page for the Document the loop of print_man_pages is at
Page(k) ==
    print_man_page(opt, opt.manpage_date, functions[k], functions, filled_structures,
                   HeaderCopyright)

\* print_man_page, lines 1326-1328: nothing is written for this Document
SkipPage ==
    /\ pc = "print"
    /\ opt.print_man
    /\ fn_idx <= Len(functions)
    /\ SkipsPage(opt, functions[fn_idx])
    /\ fn_idx' = fn_idx + 1
    /\ UNCHANGED <<call, xml_files, xml_dir, args, opt, file_idx, pc, functions, structures,
                   filled_structures, pages, outcome, fail_in>>

\* print_man_page, lines 1339-1500: the artifact is created and written
WritePage ==
    /\ pc = "print"
    /\ opt.print_man
    /\ fn_idx <= Len(functions)
    /\ \E r \in {Page(fn_idx)} :
           /\ r.st = "ok"
           /\ pages' = Append(pages, [file |-> file_idx, doc |-> fn_idx,
                                      name |-> functions[fn_idx].fn_name, text |-> r.f])
    /\ fn_idx' = fn_idx + 1
    /\ UNCHANGED <<call, xml_files, xml_dir, args, opt, file_idx, pc, functions, structures,
                   filled_structures, outcome, fail_in>>

\* print_man_pages, line 1536: print_man_page returns Err (the artifact cannot
\* be created or written) and unwrap() panics
SinkFails ==
    /\ pc = "print"
    /\ opt.print_man
    /\ fn_idx <= Len(functions)
    /\ ~SkipsPage(opt, functions[fn_idx])
    /\ pc' = "panicked"
    /\ UNCHANGED <<call, xml_files, xml_dir, args, opt, file_idx, functions, structures,
                   filled_structures, fn_idx, pages, outcome, fail_in>>

\* main, lines 1579-1585: print_man_pages has returned Ok
FinishFile ==
    /\ pc = "print"
    /\ fn_idx > Len(functions) \/ ~opt.print_man
    /\ pc' = "main"
    /\ file_idx' = file_idx + 1
    /\ outcome' = Append(outcome, "printed")
    /\ UNCHANGED <<call, xml_files, xml_dir, args, opt, functions, structures, filled_structures,
                   fn_idx, pages, fail_in>>

\* main, line 1590: the loop over xml_files has ended
Exit ==
    /\ pc = "main"
    /\ file_idx > Len(xml_files)
    /\ pc' = "exit"
    /\ UNCHANGED <<call, xml_files, xml_dir, args, opt, file_idx, functions, structures,
                   filled_structures, fn_idx, pages, outcome, fail_in>>

Next ==
    \/ OpenFile
    \/ OpenFails
    \/ ReadFile
    \/ ReadStructuresFiles
    \/ SkipPage
    \/ WritePage
    \/ SinkFails
    \/ FinishFile
    \/ Exit

Spec == Init /\ [][Next]_vars

(***************************************************************************)
(* Procedures called on their own, each on one argument out of a bounded   *)
(* set: the formatting procedures and collect_params.                       *)
(***************************************************************************)
MaxLines == 4

\* The lines a description is made of: text, the markers of a literal block,
\* and a line of a listing
DescriptionLines == {"Some text.", ".nf", "  int x;", ".fi"}

RECURSIVE JoinLines(_)
JoinLines(ls) ==
    IF ls = <<>> THEN ""
    ELSE IF Len(ls) = 1 THEN ls[1]
    ELSE ls[1] \o "\n" \o JoinLines(Tail(ls))

Descriptions == {JoinLines(ls) : ls \in UNION {[1..n -> DescriptionLines] : n \in 0..MaxLines}}

MaxTokens == 3

\* What a description that carries markup is made of: text, font escapes, and
\* a backslash of its own
MarkupTokens == {"ab", "\\fB", "\\fR", "\\"}

RECURSIVE Concat(_)
Concat(ts) == IF ts = <<>> THEN "" ELSE ts[1] \o Concat(Tail(ts))

MarkedUp == {Concat(ts) : ts \in UNION {[1..n -> MarkupTokens] : n \in 0..MaxTokens}}

MaxWords == 3

\* The words of a member description: one of 50 characters, one of 40, and a
\* short one
CommentWords == {TypeOfLen(50), TypeOfLen(40), "ab"}

RECURSIVE JoinWords(_)
JoinWords(ws) ==
    IF ws = <<>> THEN ""
    ELSE IF Len(ws) = 1 THEN ws[1]
    ELSE ws[1] \o " " \o JoinWords(Tail(ws))

Comments == {JoinWords(ws) : ws \in UNION {[1..n -> CommentWords] : n \in 0..MaxWords}}

Calls ==
    [fn : {"print_long_string"}, arg : Descriptions, ret : {None}]
    \cup [fn : {"print_long_structure_comment"}, arg : Comments, ret : {None}]
    \cup [fn : {"len_without_formatting"}, arg : MarkedUp, ret : {None}]

\* Parameters collected from <param> elements, one of them with a description
\* from an earlier list and a name another one has too
MaxParams == 2

CollectedParams ==
    {FnParam("p", "int", None, "", "", ""),
     FnParam("q", "struct sa *", Some("sa"), "", "", ""),
     FnParam("p", "char *", None, "", "an earlier text", "")}

ParamSeqs == UNION {[1..n -> CollectedParams] : n \in 0..MaxParams}

\* the name and the description of a parameteritem; no Parameter is named z
MaxListItems == 2

ListItems == {<<"p", "the first">>, <<"q", "the second">>, <<"z", "not there">>}

ListItemSeqs == UNION {[1..n -> ListItems] : n \in 0..MaxListItems}

\* the events after <parameterlist kind="param"> up to its close
RECURSIVE ParameterItems(_)
ParameterItems(items) ==
    IF items = <<>> THEN <<EndElement("parameterlist")>>
    ELSE ParameterItem(items[1][1], items[1][2]) \o ParameterItems(Tail(items))

BuilderCalls ==
    [fn : {"collect_params"}, arg : [params : ParamSeqs, items : ListItemSeqs], ret : {None}]

\* Members of a structure: with and without args, with no comment, a comment
\* that goes on the line of the member and one that goes on lines of its own
MaxMembers == 3

Members ==
    {FnParam("x", "int", None, "", "the x", ""),
     FnParam("buffer", "char", None, "[16]", "the data", ""),
     FnParam("n", "size_t", None, "", "", ""),
     FnParam("cb", "void(*", None, ")(int)", LongMemberDesc, "")}

MemberSeqs == UNION {[1..n -> Members] : n \in 0..MaxMembers}

StructureCalls ==
    [fn : {"print_structure"},
     arg : {StructureInfo("Struct", "s", "", "", ms) : ms \in MemberSeqs},
     ret : {None}]

\* main has handled an empty batch
Idle ==
    /\ xml_files = <<>>
    /\ xml_dir = [r \in {} |-> Missing]
    /\ args = CHOOSE o \in Opts : ~o.print_general /\ o.headerfile = DefaultHeaderfile
    /\ opt = args
    /\ file_idx = 1
    /\ pc = "exit"
    /\ functions = <<>>
    /\ structures = EmptyMap
    /\ filled_structures = EmptyMap
    /\ fn_idx = 1
    /\ pages = <<>>
    /\ outcome = <<>>
    /\ fail_in = "none"

FormatterInit ==
    /\ Idle
    /\ call \in Calls \cup BuilderCalls \cup StructureCalls

\* the procedure fn is called on call.arg and returns the result ret
Returns(fn, ret) ==
    /\ call.fn = fn
    /\ call.ret = None
    /\ call' = [call EXCEPT !.ret = Some(ret)]
    /\ UNCHANGED <<xml_files, xml_dir, args, opt, file_idx, pc, functions, structures,
                   filled_structures, fn_idx, pages, outcome, fail_in>>

CallPrintLongString == Returns("print_long_string", print_long_string("", call.arg))

CallLenWithoutFormatting ==
    Returns("len_without_formatting", len_without_formatting(call.arg))

CallPrintLongStructureComment ==
    Returns("print_long_structure_comment", print_long_structure_comment("", call.arg))

CallCollectParams ==
    Returns("collect_params",
            collect_params([ev |-> ParameterItems(call.arg.items), failAt |-> 0], 1,
                           "parameterlist", call.arg.params))

CallPrintStructure == Returns("print_structure", print_structure("", call.arg))

FormatterNext ==
    \/ CallCollectParams
    \/ CallPrintStructure
    \/ CallPrintLongString
    \/ CallPrintLongStructureComment
    \/ CallLenWithoutFormatting

FormatterSpec == FormatterInit /\ [][FormatterNext]_vars

\* the procedure fn has returned
Returned(fn) == call.fn = fn /\ call.ret # None

(***************************************************************************)
(* Properties.                                                              *)
(***************************************************************************)
\* the positions of s at which sub occurs
Occurrences(s, sub) ==
    {i \in 1..(Len(s) - Len(sub) + 1) : SubSeq(s, i, i + Len(sub) - 1) = sub}

\* position of the first occurrence of sub in s, 0 if there is none
FindSub(s, sub) ==
    IF Occurrences(s, sub) = {} THEN 0
    ELSE CHOOSE i \in Occurrences(s, sub) : \A j \in Occurrences(s, sub) : i <= j

\* read_file on the input main is at, its reader failing at position k
ReadFileFailingAt(k) ==
    read_file([ev |-> xml_files[file_idx].ev, failAt |-> k], opt.headerfile, <<>>, EmptyMap)

\* C1: a read failure at any point of the Builder pass, inside a function, a
\* define or an enum memberdef included, makes read_file report the failure;
\* no page is produced for that file, and main goes on with the files that
\* remain.
C1_ReadFailureSkipsOnlyThatFile ==
    /\ pc = "read" =>
          \A k \in FailPoints(xml_files[file_idx].ev) \ {0} : ReadFileFailingAt(k).st = "err"
    /\ \A i \in DOMAIN outcome :
          outcome[i] = "read_failed" => \A j \in DOMAIN pages : pages[j].file # i
    /\ Len(outcome) = file_idx - 1
    /\ (pc = "main" /\ file_idx <= Len(xml_files)) => ENABLED (OpenFile \/ OpenFails)

\* C1 happens: the first file failed inside an enum memberdef and a page of a
\* later file has been written
C1_Witness ==
    /\ Len(outcome) >= 1
    /\ outcome[1] = "read_failed"
    /\ fail_in = "enum"
    /\ \E j \in DOMAIN pages : pages[j].file > 1

\* C2: an output artifact that cannot be created or written loses only its
\* own Document: print_man_pages goes on with the next Document and main with
\* the next file; no such failure ends the batch.
C2_SinkFailureLosesOnlyThatDocument == pc # "panicked"

\* What read_file yields for input i when it is the only input of the run
Alone(i) ==
    read_file([ev |-> xml_files[i].ev, failAt |-> 0], args.headerfile, <<>>, EmptyMap)

\* C3: the inputs share no mutable state: the Documents of a file, and the
\* header file name its pages are printed with (the name of the General
\* Document, the #include line), are those the file yields when it is
\* processed alone.
C3_FilesAreIndependent ==
    pc \in {"resolve", "print"} =>
        /\ functions = Alone(file_idx).functions
        /\ structures = Alone(file_idx).structures
        /\ opt.headerfile = Alone(file_idx).headerfile

\* The pages of the Documents of the input main is at, printed with the
\* resolved map `filled`
PagesWith(filled) ==
    [k \in 1..Len(functions) |->
        print_man_page(opt, opt.manpage_date, functions[k], functions, filled, HeaderCopyright)]

\* C4: Builder, Resolver and Formatter run again on the same input give the
\* same pages, whatever the order in which the Resolver goes through the
\* placeholder map.
C4_PagesIndependentOfResolverOrder ==
    pc = "print" =>
        \A o \in Orders(DOMAIN structures) :
            \A again \in {read_structures_files(xml_dir, structures, o, EmptyMap).filled} :
                PagesWith(again) = PagesWith(filled_structures)

\* The per-structure source of the placeholder r is missing, or reading it fails
SourceFails(r) ==
    \/ OpenStructureFile(xml_dir, r) = Missing
    \/ read_structure_file(OpenStructureFile(xml_dir, r), "Struct").st # "ok"

\* The ids of the Document `function` whose structure was resolved (an enum
\* of the primary source, or a placeholder whose source was read)
ResolvedRefids(function) ==
    {i \in 1..Len(function.fn_refids) :
        /\ function.fn_refids[i] \in DOMAIN structures
        /\ ~(function.fn_refids[i] \in Placeholders(structures)
             /\ SourceFails(function.fn_refids[i]))}

\* C5: a placeholder whose source is missing or unreadable is no key of the
\* resolved map; no structure of kind Unknown is in the map; a page whose ids
\* are all unresolved has no STRUCTURES header, and a page with resolved and
\* unresolved ids renders the resolved ones only.
C5_UnresolvedPlaceholdersAreAbsent ==
    pc = "print" =>
        /\ \A r \in Placeholders(structures) :
              SourceFails(r) => r \notin DOMAIN filled_structures
        /\ \A r \in DOMAIN filled_structures : filled_structures[r].str_type # "Unknown"
        /\ \A k \in 1..Len(functions) :
              ~SkipsPage(opt, functions[k]) =>
                  /\ Cardinality(Occurrences(PagesWith(filled_structures)[k].f,
                                             ".SH STRUCTURES\n"))
                        = IF ResolvedRefids(functions[k]) = {} THEN 0 ELSE 1
                  /\ Cardinality(Occurrences(PagesWith(filled_structures)[k].f, "};\\fP\n"))
                        = Cardinality(ResolvedRefids(functions[k]))

\* C6: the fn_refids of every Document are strictly ascending and hold each
\* id its parameters reference exactly once, however many parameters
\* reference it.
C6_RefidsSortedAndUnique ==
    pc \in {"resolve", "print"} =>
        \A k \in 1..Len(functions) :
            /\ \A i \in 1..(Len(functions[k].fn_refids) - 1) :
                  StrLess(functions[k].fn_refids[i], functions[k].fn_refids[i + 1])
            /\ {functions[k].fn_refids[i] : i \in 1..Len(functions[k].fn_refids)}
                  = {functions[k].fn_args[j].par_refid[1] :
                        j \in {n \in 1..Len(functions[k].fn_args) :
                                  functions[k].fn_args[n].par_refid # None}}

\* C6 happens: two parameters of a Document reference the same id, and the
\* Document references a second id that sorts before it
C6_Witness ==
    /\ pc = "resolve"
    /\ \E k \in 1..Len(functions) :
          /\ Len(functions[k].fn_refids) = 2
          /\ \E i, j \in 1..Len(functions[k].fn_args) :
                /\ i < j
                /\ functions[k].fn_args[i].par_refid # None
                /\ functions[k].fn_args[i].par_refid = functions[k].fn_args[j].par_refid

\* The positions of the events of ev that open a memberdef of the kind `kind`
MemberdefsOf(ev, kind) ==
    {i \in 1..Len(ev) :
        ev[i].t = "StartElement" /\ ev[i].name = "memberdef" /\ ev[i].kind = kind}

\* The positions of S in ascending order
Ascending(S) ==
    CHOOSE o \in [1..Cardinality(S) -> S] : \A a, b \in 1..Cardinality(S) : a < b => o[a] < o[b]

\* The text of the first <name> element after position i of ev
NameAfter(ev, i) ==
    ev[1 + CHOOSE n \in (i + 1)..Len(ev) :
              /\ ev[n].t = "StartElement" /\ ev[n].name = "name"
              /\ \A m \in (i + 1)..(n - 1) : ~(ev[m].t = "StartElement" /\ ev[m].name = "name")].s

\* The names of the memberdefs of the kind `kind` of ev, in source order
MemberdefNames(ev, kind) ==
    [k \in 1..Cardinality(MemberdefsOf(ev, kind)) |->
        NameAfter(ev, Ascending(MemberdefsOf(ev, kind))[k])]

C8_SkipsOnlyTheGeneralDocument ==
    pc = "print" =>
        \A k \in 1..Len(functions) :
            SkipsPage(opt, functions[k]) <=> (k = Len(functions) /\ ~opt.print_general)

\* C9: a per-structure source that is missing or whose reading fails ends
\* nothing: its structure is absent from the resolved map, every other
\* placeholder is resolved, and the page of every Document is still printed.
C9_FailingStructureSourceIsOmitted ==
    /\ pc = "resolve" =>
          \A d \in Dirs(Placeholders(structures)), o \in Orders(DOMAIN structures) :
              read_structures_files(d, structures, o, EmptyMap).st = "ok"
    /\ pc = "print" =>
          /\ \A r \in Placeholders(structures) :
                r \in DOMAIN filled_structures <=> ~SourceFails(r)
          /\ \A k \in 1..Len(functions) :
                ~SkipsPage(opt, functions[k]) => PagesWith(filled_structures)[k].st = "ok"

IsEntryLine(l) == starts_with(l, "    \\fB")

\* The lines of the SYNOPSIS of `function` that hold an entry of its
\* parameter list
SynopsisEntries(function) == SelectSeq(lines(PrintSynopsis("", opt, function).f), IsEntryLine)

\* C10: when no type of a parameter list is longer than MAX_PRINT_PARAM_LEN,
\* the identifier starts at the same character offset on every entry line of
\* the list.
C10_IdentifierColumnIsAligned ==
    pc = "print" =>
        \A k \in 1..Len(functions) :
            (\A i \in 1..Len(functions[k].fn_args) :
                Len(functions[k].fn_args[i].par_type) <= MAX_PRINT_PARAM_LEN)
            => Cardinality({FindSub(SynopsisEntries(functions[k])[a], "\\fI") :
                               a \in 1..Len(SynopsisEntries(functions[k]))}) <= 1

\* The page print_man_page has just written, and its Document
LastPage == pages[Len(pages)]

PageJustWritten ==
    /\ pc = "print"
    /\ fn_idx > 1
    /\ pages # <<>>
    /\ LastPage.file = file_idx
    /\ LastPage.doc = fn_idx - 1

Printed == functions[fn_idx - 1]

ends_with(s, suffix) ==
    Len(s) >= Len(suffix) /\ SubSeq(s, Len(s) - Len(suffix) + 1, Len(s)) = suffix

\* s without its last n characters
StripLast(s, n) == SubSeq(s, 1, Len(s) - n)

\* The types print_param is called with for the input main is at: those of
\* the parameters of the Documents and of the members of the structures
PrintedTypes ==
    UNION {{functions[k].fn_args[i].par_type : i \in 1..Len(functions[k].fn_args)} :
              k \in 1..Len(functions)}
    \cup UNION {{filled_structures[r].str_members[i].par_type :
                    i \in 1..Len(filled_structures[r].str_members)} :
                   r \in DOMAIN filled_structures}

\* C11 as stated: a type ending in `**`, in `*` or in `(` loses exactly that
\* marker and is recorded as a double pointer, a single pointer or a function
\* pointer; any other type is recorded as no pointer and left unchanged.
C11_TrailingMarkerIsStripped ==
    pc = "print" =>
        \A t \in PrintedTypes :
            NormalizePointer(t) =
                CASE ends_with(t, "**") -> [asterisks |-> "**", formatted_type |-> StripLast(t, 2)]
                  [] ends_with(t, "*") -> [asterisks |-> " *", formatted_type |-> StripLast(t, 1)]
                  [] ends_with(t, "(") -> [asterisks |-> "(*", formatted_type |-> StripLast(t, 1)]
                  [] OTHER -> [asterisks |-> "  ", formatted_type |-> t]

\* C11, amended: the marker of a function pointer is `(*`.  A type ending in
\* `**`, in `(*` or in any other `*` loses exactly that marker and is recorded
\* as a double pointer, a function pointer or a single pointer; any other
\* type, one ending in `(` included, is recorded as no pointer and left
\* unchanged.  On the page just written, the entry line of the synopsis holds
\* the stripped type, padded, and then the marker, right before the identifier.
C11_PointerMarkerIsStripped ==
    /\ pc = "print" =>
          \A t \in PrintedTypes :
              NormalizePointer(t) =
                  CASE ends_with(t, "**") -> [asterisks |-> "**", formatted_type |-> StripLast(t, 2)]
                    [] ends_with(t, "(*") -> [asterisks |-> "(*", formatted_type |-> StripLast(t, 2)]
                    [] ends_with(t, "*") -> [asterisks |-> " *", formatted_type |-> StripLast(t, 1)]
                    [] OTHER -> [asterisks |-> "  ", formatted_type |-> t]
    /\ (PageJustWritten /\ Printed.fn_def # "") =>
          /\ Occurrences(LastPage.text, PrintSynopsis("", opt, Printed).f) # {}
          /\ Len(SynopsisEntries(Printed)) = Len(Printed.fn_args)
          /\ \A i \in 1..Len(Printed.fn_args) :
                \A t \in {Printed.fn_args[i].par_type} :
                    \E w \in 0..MAX_PRINT_PARAM_LEN :
                        starts_with(SynopsisEntries(Printed)[i],
                            "    \\fB"
                            \o (IF ends_with(t, "**") \/ ends_with(t, "(*") THEN StripLast(t, 2)
                                ELSE IF ends_with(t, "*") THEN StripLast(t, 1)
                                ELSE t)
                            \o Spaces(w)
                            \o (IF ends_with(t, "**") THEN "**"
                                ELSE IF ends_with(t, "(*") THEN "(*"
                                ELSE IF ends_with(t, "*") THEN " *"
                                ELSE "  ")
                            \o "\\fI" \o Printed.fn_args[i].par_name \o "\\fB")

\* C11 happens: the pages of a source are being printed whose types have a
\* double pointer, a function pointer, a single pointer, a type ending in `(`
\* and a plain type among them
C11_Witness ==
    /\ pc = "print"
    /\ fn_idx > 1
    /\ {"char **", "void(*", "int(", "int"} \subseteq PrintedTypes
    /\ \E t \in PrintedTypes : ends_with(t, " *")

\* What print_param writes for parameter i of the Document `function`, as
\* print_man_page calls it (lines 1387-1395), and for member i of the
\* structure si, as print_structure calls it (lines 1296-1311)
ParamText(function, i) ==
    print_param("", function.fn_args[i], MaxParamTypeLen(function.fn_args), 0, TRUE,
                IF i = Len(function.fn_args) THEN "" ELSE ",").f

MemberText(si, i) ==
    print_param("", si.str_members[i], MaxMemberTypeLength(si.str_members),
                MaxMemberNameLength(si.str_members), FALSE,
                IF i = Len(si.str_members) THEN "" ELSE ";").f

\* The two renderings of the description desc in the text of an entry
HasInlineComment(text, desc) == Occurrences(text, " /* " \o desc \o " */\n") # {}

HasBlockComment(text) == starts_with(text, "    \\fP/*\n")

\* exactly one rendering: inline when the description is short, else block
OneRendering(text, desc) ==
    IF len_without_formatting(desc) <= MAX_STRUCT_COMMENT_LEN
    THEN HasInlineComment(text, desc) /\ ~HasBlockComment(text)
    ELSE HasBlockComment(text) /\ ~HasInlineComment(text, desc)

\* C12 as stated: every entry with a description, of a parameter list or of
\* a member list, has exactly one rendering of it: inline when the length
\* ignoring escapes is <= 50, a block comment before the entry otherwise.
C12_ExactlyOneCommentRendering ==
    pc = "print" =>
        /\ \A k \in 1..Len(functions) : \A i \in 1..Len(functions[k].fn_args) :
              functions[k].fn_args[i].par_desc # "" =>
                  OneRendering(ParamText(functions[k], i), functions[k].fn_args[i].par_desc)
        /\ \A r \in DOMAIN filled_structures :
              \A i \in 1..Len(filled_structures[r].str_members) :
                  filled_structures[r].str_members[i].par_desc # "" =>
                      OneRendering(MemberText(filled_structures[r], i),
                                   filled_structures[r].str_members[i].par_desc)

\* C12, amended: the inline rendering exists for the entries of a member list
\* only.  A member with a description has exactly one rendering; a parameter
\* of the synopsis has the block comment when its description is longer than
\* 50 and no rendering when it is shorter.  The entries are on the page: in
\* the synopsis, and in the section of the structure.
C12_MembersHaveOneRenderingParametersAtMostOne ==
    pc = "print" =>
        /\ \A r \in DOMAIN filled_structures :
              \A i \in 1..Len(filled_structures[r].str_members) :
                  /\ Occurrences(print_structure("", filled_structures[r]).f,
                                 MemberText(filled_structures[r], i)) # {}
                  /\ len_without_formatting(filled_structures[r].str_members[i].par_desc) > 0 =>
                        OneRendering(MemberText(filled_structures[r], i),
                                     filled_structures[r].str_members[i].par_desc)
        /\ \A k \in 1..Len(functions) : \A i \in 1..Len(functions[k].fn_args) :
              /\ functions[k].fn_def # "" =>
                    Occurrences(PrintSynopsis("", opt, functions[k]).f,
                                ParamText(functions[k], i)) # {}
              /\ ~HasInlineComment(ParamText(functions[k], i), functions[k].fn_args[i].par_desc)
              /\ HasBlockComment(ParamText(functions[k], i))
                    <=> len_without_formatting(functions[k].fn_args[i].par_desc)
                            > MAX_STRUCT_COMMENT_LEN

\* C12 happens: a Document with a short and a long parameter description and
\* a structure with a short and a long member description are being printed
C12_Witness ==
    /\ pc = "print"
    /\ fn_idx > 1
    /\ \E k \in 1..Len(functions) : \E i, j \in 1..Len(functions[k].fn_args) :
          /\ functions[k].fn_args[i].par_desc = "number of bytes"
          /\ functions[k].fn_args[j].par_desc = LongParamDesc
    /\ \E r \in DOMAIN filled_structures : \E i, j \in 1..Len(filled_structures[r].str_members) :
          /\ filled_structures[r].str_members[i].par_desc = "length"
          /\ filled_structures[r].str_members[j].par_desc = LongMemberDesc

HasLowerCase(name) ==
    \E i \in 1..Len(name) : \E j \in 1..Len(LowerCase) : CharAt(name, i) = CharAt(LowerCase, j)

\* The line of the DEFINES section that prints the define d
DefineLine(d) == "\n#define " \o d.hd_name \o " " \o d.hd_init \o "\n"

\* The Defines of the source main is at: those the Documents carry
AllDefines ==
    UNION {{functions[k].fn_defines[i] : i \in 1..Len(functions[k].fn_defines)} :
              k \in 1..Len(functions)}

\* C13: a Define is printed, in a DEFINES section, exactly on the page of the
\* General Document and when its name has no lower-case letter; the page of a
\* function Document has no DEFINES section.
C13_DefinesOnGeneralPageUpperCaseOnly ==
    pc = "print" =>
        \A k \in 1..Len(functions) :
            ~SkipsPage(opt, functions[k]) =>
                \A text \in {Page(k).f} :
                    \A heads \in {Occurrences(text, "\n.SH ")} :
                        \A defines \in {Occurrences(text, "\n.SH DEFINES\n")} :
                            /\ k < Len(functions) => defines = {}
                            /\ \A d \in AllDefines :
                                  \A at \in {Occurrences(text, DefineLine(d))} :
                                      /\ at # {} <=> (k = Len(functions) /\ ~HasLowerCase(d.hd_name))
                                      /\ \A i \in at :
                                            \E h \in defines :
                                                h < i /\ \A n \in heads : n <= h \/ n > i

\* C13 happens: the page of the General Document of a source with a define
\* that has lower-case letters and one that has none has been written
C13_Witness ==
    /\ pc = "print"
    /\ fn_idx > Len(functions)
    /\ \E j \in DOMAIN pages : pages[j].file = file_idx /\ pages[j].doc = Len(functions)
    /\ \E d, e \in AllDefines : HasLowerCase(d.hd_name) /\ ~HasLowerCase(e.hd_name)


(***************************************************************************)
(* C14: the SEE ALSO section of a page.                                     *)
(***************************************************************************)
SeeAlsoEntry(func) == "\\fI" \o func.fn_name \o "\\fP(" \o opt.man_section \o ")"

\* the entries for every Document but the k-th, from the j-th on, each one but
\* the last followed by the delimiter
RECURSIVE SeeAlsoOthers(_, _)
SeeAlsoOthers(k, j) ==
    IF j > Len(functions) THEN ""
    ELSE (IF j = k THEN ""
          ELSE SeeAlsoEntry(functions[j])
               \o (IF \E m \in (j + 1)..Len(functions) : m # k THEN ", " ELSE "")
               \o "\n")
         \o SeeAlsoOthers(k, j + 1)

SeeAlsoHeader == ".SH SEE ALSO\n.PP\n.nh\n.ad l\n"

\* C14: the page just written ends with a SEE ALSO section that names every
\* other Document of the source in their order, each entry but the last one
\* followed by the comma delimiter and the last one by none, and then with
\* the copyright.  This holds on the page of the last Document as well.
C14_SeeAlsoListsEveryOtherDocument ==
    PageJustWritten =>
        ends_with(LastPage.text,
                  SeeAlsoHeader \o SeeAlsoOthers(fn_idx - 1, 1)
                  \o PrintCopyright("", HeaderCopyright))


(***************************************************************************)
(* C15: the RETURN VALUE section of a page.                                 *)
(***************************************************************************)
\* the Return Value Entries rvs as tagged entries, one after the other
RECURSIVE TaggedEntries(_)
TaggedEntries(rvs) ==
    IF rvs = <<>> THEN ""
    ELSE ".TP\n\\fB" \o rvs[1].ret_name \o "\\fR " \o rvs[1].ret_desc \o "\n"
         \o TaggedEntries(Tail(rvs))

HasReturnContent(function) == function.fn_returnval # "" \/ function.fn_retvals # <<>>

ReturnValueHeader == "\n.SH RETURN VALUE\n"

\* C15: the page just written of a Document with return-value content (free
\* return text, or at least one Return Value Entry) has the RETURN VALUE
\* section, and after its header the Return Value Entries of the Document, each
\* as one tagged entry, in the order of the model.
C15_ReturnValueSectionShowsEveryEntry ==
    (PageJustWritten /\ HasReturnContent(Printed)) =>
        \A text \in {LastPage.text} :
            \E h \in Occurrences(text, ReturnValueHeader) :
                \E i \in Occurrences(text, TaggedEntries(Printed.fn_retvals)) : h < i


(***************************************************************************)
(* C16: the section headers of a page.                                      *)
(***************************************************************************)
SectionOrder ==
    <<"NAME", "SYNOPSIS", "PARAMETERS", "DESCRIPTION", "STRUCTURES", "RETURN VALUE",
      "DEFINES", "NOTE", "SEE ALSO", "COPYRIGHT">>

\* where the header of section i stands in text
HeaderAt(text, i) == Occurrences(text, "\n.SH " \o SectionOrder[i] \o "\n")

\* the lines of text that open a section
SectionLines(text) == Occurrences(text, "\n.SH ")

\* C16: on the page just written every line that opens a section is one of the
\* ten headers, each header stands at most once, and the headers that are
\* there stand in the order NAME, SYNOPSIS, PARAMETERS, DESCRIPTION,
\* STRUCTURES, RETURN VALUE, DEFINES, NOTE, SEE ALSO, COPYRIGHT.
C16_SectionHeadersOnceAndInOrder ==
    PageJustWritten =>
        \A text \in {LastPage.text} :
            \A at \in {[i \in DOMAIN SectionOrder |-> HeaderAt(text, i)]} :
                /\ \A i \in DOMAIN SectionOrder : Cardinality(at[i]) <= 1
                /\ SectionLines(text) = UNION {at[i] : i \in DOMAIN SectionOrder}
                /\ \A i, j \in DOMAIN SectionOrder :
                      i < j => \A a \in at[i], b \in at[j] : a < b

\* C16 happens: the pages written for a source show all ten headers between
\* them, and one page has a section for two structures
C16_Witness ==
    /\ pc = "print"
    /\ fn_idx > Len(functions)
    /\ \A i \in DOMAIN SectionOrder :
          \E j \in DOMAIN pages : pages[j].file = file_idx /\ HeaderAt(pages[j].text, i) # {}
    /\ \E j \in DOMAIN pages :
          /\ pages[j].file = file_idx
          /\ Cardinality(Occurrences(pages[j].text, "\nstruct ")) = 2


(***************************************************************************)
(* C17 and C18: elements of the event stream.                               *)
(***************************************************************************)
\* the elements opened minus the elements closed by the events j..x of ev
Depth(ev, j, x) ==
    Cardinality({m \in j..x : ev[m].t = "StartElement"})
    - Cardinality({m \in j..x : ev[m].t = "EndElement"})

\* the element that the event j of ev opens is still open before the event i
OpenAt(ev, j, i) == \A m \in j..(i - 1) : Depth(ev, j, m) >= 1

\* the position of the event that closes the element the event j of ev opens
CloseOf(ev, j) ==
    CHOOSE m \in (j + 1)..Len(ev) : Depth(ev, j, m) = 0 /\ OpenAt(ev, j, m)

\* the position of the first event after i that opens an element called name
FirstStart(ev, i, name) ==
    CHOOSE n \in (i + 1)..Len(ev) :
        /\ ev[n].t = "StartElement" /\ ev[n].name = name
        /\ \A m \in (i + 1)..(n - 1) : ~(ev[m].t = "StartElement" /\ ev[m].name = name)

\* The text fragments of the narrative of the block the event d opens: its
\* character data that is not all white space, directly in the block, in
\* inline markup or in a nested para, and not in a parameter list or a section
\* of its own
Narrative(ev, d) ==
    {i \in (d + 1)..(CloseOf(ev, d) - 1) :
        /\ ev[i].t = "Characters"
        /\ trim(ev[i].s) # ""
        /\ \A j \in (d + 1)..(i - 1) :
              (ev[j].t = "StartElement" /\ OpenAt(ev, j, i))
                  => ev[j].name \notin {"parameterlist", "simplesect"}}

\* the fragments a and b of ev stand in text, a before b
InOrder(ev, a, b, text) ==
    \E x \in Occurrences(text, trim(ev[a].s)) :
        \E y \in Occurrences(text, trim(ev[b].s)) : x < y

\* C17: after a successful Builder pass, of any two text fragments of the
\* detailed description of a function the one that comes first in the event
\* stream comes first in the description of the function's Document.
C17_DescriptionPreservesSourceOrder ==
    pc = "resolve" =>
        \A ev \in {xml_files[file_idx].ev} :
            \A starts \in {Ascending(MemberdefsOf(ev, "function"))} :
                \A k \in DOMAIN starts :
                    \A frags \in {Narrative(ev, FirstStart(ev, starts[k], "detaileddescription"))} :
                        \A a, b \in frags :
                            a < b => InOrder(ev, a, b, functions[k].fn_detail)


\* the positions of the events of ev that open an element
Opens(ev) == {j \in 1..Len(ev) : ev[j].t = "StartElement"}

\* the elements directly inside the element the event j of ev opens
Children(ev, j) ==
    {c \in Opens(ev) : j < c /\ c < CloseOf(ev, j) /\ Depth(ev, j, c) = 2}

\* the collecting procedure that returned r was entered right after the event
\* j of ev: if it returned Ok, the reader stands just past the close of j
StopsAtClose(r, ev, j) == r.st = "ok" => r.pos = CloseOf(ev, j) + 1

Containers == {"doxygen", "compounddef", "sectiondef", "memberdef"}

\* C18: on the source that has been read, a collecting procedure entered right
\* after the open event of an element (collect_text for any element of a
\* memberdef, collect_function_param for a param, collect_text_and_refid for
\* an element of a param, collect_detail_bits for a detailed description or a
\* para) returns Ok only with the reader just past the close of that element.
C18_CollectorsStopAtTheirCloseTag ==
    pc = "resolve" =>
        \A ev \in {xml_files[file_idx].ev} :
            \A src \in {[ev |-> ev, failAt |-> 0]} :
                \A j \in Opens(ev) :
                    /\ ev[j].name \notin Containers
                          => StopsAtClose(collect_text(src, j + 1, ev[j].name), ev, j)
                    /\ ev[j].name = "param"
                          => /\ StopsAtClose(collect_function_param(src, j + 1, EmptyMap), ev, j)
                             /\ \A c \in Children(ev, j) :
                                   StopsAtClose(collect_text_and_refid(src, c + 1), ev, c)
                    /\ ev[j].name \in {"detaileddescription", "para"}
                          => StopsAtClose(collect_detail_bits(src, j + 1, ev[j].name,
                                                              NewFunctionInfo), ev, j)


(***************************************************************************)
(* C19: enums and forward references in the structure map.                  *)
(***************************************************************************)
\* the positions of the enumvalue elements of the memberdef the event j opens
EnumValuesOf(ev, j) ==
    {c \in Children(ev, j) : ev[c].name = "enumvalue"}

\* si is the whole Enum of the enum memberdef the event j of ev opens
CompleteEnum(si, ev, j) ==
    /\ si.str_type = "Enum"
    /\ si.str_name = NameAfter(ev, j)
    /\ Len(si.str_members) = Cardinality(EnumValuesOf(ev, j))
    /\ \A n \in DOMAIN si.str_members :
          si.str_members[n].par_name = NameAfter(ev, Ascending(EnumValuesOf(ev, j))[n])

\* the positions of the events of ev that refer to the id R from a param
ReferencesTo(ev, R) ==
    {c \in Opens(ev) : ev[c].name = "ref" /\ ev[c].refid = R}

\* C19: after a successful Builder pass the map holds, under the id of every
\* enum memberdef of the source, the whole Enum of that memberdef, whether a
\* parameter refers to the id before or after the memberdef; and registering a
\* reference to an id the map has an entry for leaves the map as it is.
C19_EnumCompleteUnderItsId ==
    pc = "resolve" =>
        /\ \A ev \in {xml_files[file_idx].ev} :
              \A j \in MemberdefsOf(ev, "enum") :
                  /\ ev[j].id \in DOMAIN structures
                  /\ CompleteEnum(structures[ev[j].id], ev, j)
        /\ \A R \in DOMAIN structures :
              RegisterPlaceholder(structures, Some(R), "struct " \o R) = structures

\* C19 happens: the source that has been read defines the enum sa and, after
\* the enum memberdef, a function refers to sa from a parameter
C19_Witness ==
    /\ pc = "resolve"
    /\ \E j \in MemberdefsOf(xml_files[file_idx].ev, "enum") :
          /\ xml_files[file_idx].ev[j].id = "sa"
          /\ \E c \in ReferencesTo(xml_files[file_idx].ev, "sa") : j < c
    /\ \E k \in DOMAIN functions : \E i \in DOMAIN functions[k].fn_refids :
          functions[k].fn_refids[i] = "sa"


\* C20: the Resolver replaces placeholders by key.  Every key of the resolved
\* map is a key of the map the Builder produced, and the structure parsed from
\* the per-structure source opened for the reference id R is stored under R.
C20_ResolverReplacesByKey ==
    pc = "print" =>
        /\ DOMAIN filled_structures \subseteq DOMAIN structures
        /\ \A R \in Placeholders(structures) :
              ~SourceFails(R) =>
                  /\ R \in DOMAIN filled_structures
                  /\ filled_structures[R]
                        = read_structure_file(OpenStructureFile(xml_dir, R), "Struct").sinfo


(***************************************************************************)
(* C21: the Return Value Entries of a Document.                             *)
(***************************************************************************)
\* the parameteritems of the retval parameterlists of the block the event d
\* of ev opens
RetvalItems(ev, d) ==
    {i \in Opens(ev) :
        /\ d < i /\ i < CloseOf(ev, d)
        /\ ev[i].name = "parameteritem"
        /\ \E j \in Opens(ev) :
              /\ d < j /\ j < i /\ OpenAt(ev, j, i)
              /\ ev[j].name = "parameterlist" /\ ev[j].kind = "retval"}

\* the text of the first element called name after the event i of ev
TextAfter(ev, i, name) == ev[FirstStart(ev, i, name) + 1].s

\* C21: after a successful Builder pass the Return Value Entries of the
\* Document of a function are the parameteritems of the retval parameterlists
\* of its detailed description, one entry for each item, in source order,
\* however many retval parameterlists the description holds.
C21_OneEntryForEveryRetvalItem ==
    pc = "resolve" =>
        \A ev \in {xml_files[file_idx].ev} :
            \A starts \in {Ascending(MemberdefsOf(ev, "function"))} :
                \A k \in DOMAIN starts :
                    \A items \in {Ascending(RetvalItems(ev,
                                      FirstStart(ev, starts[k], "detaileddescription")))} :
                        /\ Len(functions[k].fn_retvals) = Len(items)
                        /\ \A n \in DOMAIN items :
                              n <= Len(functions[k].fn_retvals) =>
                                  functions[k].fn_retvals[n].ret_name
                                      = TextAfter(ev, items[n], "parametername")


(***************************************************************************)
(* C22: the brief and the description of the General Document.              *)
(***************************************************************************)
\* the elements called name of ev that lie outside every memberdef
OutsideMemberdefs(ev, name) ==
    {j \in Opens(ev) :
        /\ ev[j].name = name
        /\ \A m \in Opens(ev) : (m < j /\ ev[m].name = "memberdef") => ~OpenAt(ev, m, j)}

\* the briefs of the briefdescription elements at the positions js of ev
RECURSIVE BriefsOf(_, _)
BriefsOf(ev, js) ==
    IF js = <<>> THEN ""
    ELSE collect_text([ev |-> ev, failAt |-> 0], js[1] + 1, "briefdescription").text
         \o BriefsOf(ev, Tail(js))

\* the descriptions of the detaileddescription elements at the positions js
RECURSIVE DetailsOf(_, _)
DetailsOf(ev, js) ==
    IF js = <<>> THEN ""
    ELSE collect_detail_bits([ev |-> ev, failAt |-> 0], js[1] + 1, "detaileddescription",
                             NewFunctionInfo).function.fn_detail
         \o DetailsOf(ev, Tail(js))

\* C22: after a successful Builder pass the brief and the description of the
\* General Document are the texts of the briefdescription and the
\* detaileddescription elements that lie outside every memberdef, and nothing
\* of the descriptions of a memberdef, whatever its kind.
C22_GeneralTextFromOutsideMemberdefs ==
    pc = "resolve" =>
        \A ev \in {xml_files[file_idx].ev} :
            \A general \in {functions[Len(functions)]} :
                /\ general.fn_brief
                      = BriefsOf(ev, Ascending(OutsideMemberdefs(ev, "briefdescription")))
                /\ general.fn_detail
                      = DetailsOf(ev, Ascending(OutsideMemberdefs(ev, "detaileddescription")))


(***************************************************************************)
(* C23: the paragraph breaks of print_long_string.                          *)
(***************************************************************************)
\* the line i of ls lies in a literal block: a line beginning with .nf, the
\* lines up to the next line beginning with .fi, and that line
InBlock(ls, i) ==
    \E a \in 1..i :
        /\ starts_with(ls[a], ".nf")
        /\ \A b \in a..(i - 1) : ~starts_with(ls[b], ".fi")

\* the lines ls from the line i on, a paragraph break after each line that
\* lies outside every literal block
RECURSIVE WithBreaks(_, _)
WithBreaks(ls, i) ==
    IF i > Len(ls) THEN <<>>
    ELSE <<ls[i]>> \o (IF InBlock(ls, i) THEN <<>> ELSE <<".PP">>) \o WithBreaks(ls, i + 1)

NotBlank(l) == l # ""

\* C23: apart from blank lines, what print_long_string writes is every line
\* of its input once and in order, with a paragraph break (.PP) after a line
\* iff the line lies outside every literal block: none after a line beginning
\* with .nf, after the lines up to the next line beginning with .fi, or after
\* that line; the breaks resume with the first line after it.
C23_BreaksOutsideLiteralBlocksOnly ==
    Returned("print_long_string") =>
        SelectSeq(lines(call.ret[1]), NotBlank) = WithBreaks(lines(call.arg), 1)

\* C23 happens: print_long_string has returned from a description with text,
\* a literal block of two lines, and text after the block
C23_Witness ==
    /\ Returned("print_long_string")
    /\ call.arg = JoinLines(<<"Some text.", ".nf", ".fi", "Some text.">>)
    /\ Cardinality(Occurrences(call.ret[1], ".PP\n")) = 2


(***************************************************************************)
(* C24: the length of a description without its markup.                     *)
(***************************************************************************)
\* where the font escapes of s begin: a backslash, f, and the font letter
FontEscapes(s) ==
    {i \in 1..(Len(s) - 2) :
        /\ CharAt(s, i) = "\\"
        /\ CharAt(s, i + 1) = "f"
        /\ CharAt(s, i + 2) \in {"B", "I", "R", "P"}}

\* C24: len_without_formatting returns the number of the characters of its
\* argument that are not part of a font escape, each escape of three
\* characters counting for nothing.
C24_LengthIgnoresFontEscapes ==
    Returned("len_without_formatting") =>
        call.ret[1] = Len(call.arg) - 3 * Cardinality(FontEscapes(call.arg))


(***************************************************************************)
(* C25: the block comment of print_long_structure_comment.                  *)
(***************************************************************************)
\* the lines of the block comment `out` between its opening and its closing
CommentLines(out) == SubSeq(lines(out), 2, Len(lines(out)) - 1)

\* the words a line of a block comment holds after its asterisk
WordsOfLine(l) == Tail(split_whitespace(l))

RECURSIVE WordsOfLines(_)
WordsOfLines(ls) ==
    IF ls = <<>> THEN <<>> ELSE WordsOfLine(ls[1]) \o WordsOfLines(Tail(ls))

\* C25: the block comment print_long_structure_comment writes holds the words
\* of the description, each once and in order, and every line of it that
\* holds two or more words is at most 80 characters wide.
C25_CommentKeepsWordsWithinEightyColumns ==
    Returned("print_long_structure_comment") =>
        \A ls \in {CommentLines(call.ret[1])} :
            /\ WordsOfLines(ls) = split_whitespace(call.arg)
            /\ \A i \in DOMAIN ls : Len(WordsOfLine(ls[i])) >= 2 => Len(ls[i]) <= 80


(***************************************************************************)
(* C26: literal blocks on the pages.                                        *)
(***************************************************************************)

\* where a literal block opens and where one closes in text
LiteralOpens(text) == Occurrences(text, "\n.nf\n")

LiteralCloses(text) == Occurrences(text, "\n.fi\n")

\* the literal block opened at a is closed at b, inside the section it opens in
ClosedWithinSection(text, a, b) ==
    /\ a < b
    /\ \A h \in SectionLines(text) : ~(a < h /\ h < b)

\* C26: on the page just written every line .nf is followed by a line .fi
\* before the next section header, the SYNOPSIS of the General Document, whose
\* fn_def is empty, included.
C26_LiteralBlocksCloseWithinTheirSection ==
    PageJustWritten =>
        \A text \in {LastPage.text} :
            \A closes \in {LiteralCloses(text)} :
                \A a \in LiteralOpens(text) :
                    \E b \in closes : ClosedWithinSection(text, a, b)


(***************************************************************************)
(* C27: the Builder pass of a well-formed source ends.                      *)
(***************************************************************************)

\* what read_file returns for the source main is at when the reader does not
\* fail
ReadOfWellFormed ==
    read_file([ev |-> xml_files[file_idx].ev, failAt |-> 0], opt.headerfile, functions,
              structures)

\* the position of the reader once it has handed out the end of the stream
EndOfStream(ev) == Len(ev) + 1

\* the names of the elements of ev that stand, not known to
\* parse_standard_elements, inside an element of the same name
NestedInOwnName(ev) ==
    {ev[i].name : i \in {i \in 1..Len(ev) :
        /\ ev[i].t = "StartElement"
        /\ ev[i].name = "templateparamlist"
        /\ \E j \in 1..(i - 1) :
              /\ ev[j].t = "StartElement" /\ ev[j].name = ev[i].name
              /\ \A k \in (j + 1)..(i - 1) :
                    ~(ev[k].t = "EndElement" /\ ev[k].name = ev[i].name)}}

\* C27: for the well-formed source main has opened, read by a reader that does
\* not fail, read_file returns Ok with the reader at the end of the stream,
\* whatever tags and memberdef kinds it has no procedure for and however the
\* elements are nested; no procedure is left waiting for a close event.
C27_BuilderPassEndsAtEndOfStream ==
    pc = "read" =>
        \A r \in {ReadOfWellFormed} :
            /\ r.st = "ok"
            /\ r.pos = EndOfStream(xml_files[file_idx].ev)

\* C27 happens: read_file has returned Ok for a source with an element nested
\* in an element of the same name, a tag parse_standard_elements does not
\* know and a memberdef of a kind read_file has no procedure for
C27_Witness ==
    /\ pc = "resolve"
    /\ file_idx = 2
    /\ NestedInOwnName(xml_files[file_idx].ev) # {}
    /\ \E i \in DOMAIN xml_files[file_idx].ev :
          get_attr(xml_files[file_idx].ev[i], "kind") = "variable"
    /\ \E k \in DOMAIN functions : functions[k].fn_name = "n"


(***************************************************************************)
(* C28: what collect_params changes.                                        *)
(***************************************************************************)

\* the names the parameteritems of the list give
ItemNames(items) == {items[i][1] : i \in DOMAIN items}

\* C28: collect_params returns the Parameters it was given, as many and in the
\* same order, each with the name, type, reference id, args and brief it had;
\* a Parameter whose name no parameteritem gives keeps its description too, so
\* an item that names no Parameter changes nothing and adds none.
C28_ParamListChangesDescriptionsOnly ==
    Returned("collect_params") =>
        \A before \in {call.arg.params}, after \in {call.ret[1].params} :
            /\ call.ret[1].st = "ok"
            /\ Len(after) = Len(before)
            /\ \A i \in DOMAIN before :
                  /\ [after[i] EXCEPT !.par_desc = before[i].par_desc] = before[i]
                  /\ before[i].par_name \notin ItemNames(call.arg.items) =>
                        after[i] = before[i]

\* C28 happens: a list with an item that names a Parameter and an item that
\* names none has been read; one Parameter has a new description and another
\* one is as it was
C28_Witness ==
    /\ Returned("collect_params")
    /\ \E i, j \in DOMAIN call.arg.items :
          /\ \E k \in DOMAIN call.arg.params :
                call.arg.params[k].par_name = call.arg.items[i][1]
          /\ \A k \in DOMAIN call.arg.params :
                call.arg.params[k].par_name # call.arg.items[j][1]
    /\ \E k, l \in DOMAIN call.arg.params :
          /\ call.ret[1].params[k].par_desc # call.arg.params[k].par_desc
          /\ call.ret[1].params[l] = call.arg.params[l]


(***************************************************************************)
(* C29: the pad width of a member's comment.                                *)
(***************************************************************************)

\* the delimiter print_structure passes for member i of ms
MemberDelimiter(ms, i) == IF i = Len(ms) THEN "" ELSE ";"

\* member m has a comment that goes on the line of the member, in a list whose name
\* field is w wide
CommentOnMemberLine(m, w) ==
    \A n \in {len_without_formatting(m.par_desc)} :
        n > 0 /\ n <= MAX_STRUCT_COMMENT_LEN /\ w > 0

\* C29: print_structure returns Ok for every member list, and the pad width
\* print_param computes for a member, 1 + (name_field_width - name length -
\* args length) - delimiter length in unsigned arithmetic, does not go below
\* zero at any step, for the last member (empty delimiter) and for the member
\* with the longest name and args as for the others.
C29_PadWidthDoesNotUnderflow ==
    Returned("print_structure") =>
        \A ms \in {call.arg.str_members} :
            /\ call.ret[1].st = "ok"
            /\ \A i \in DOMAIN ms :
                  PadWidth(ms[i], MaxMemberNameLength(ms), MemberDelimiter(ms, i)) >= 0

\* C29 happens: a structure has been printed whose member with the longest
\* name and args has a comment on its line and is not the last (its pad width
\* is 0), and whose last member has a comment on its line too
C29_Witness ==
    /\ Returned("print_structure")
    /\ \A ms \in {call.arg.str_members} :
          \E i \in DOMAIN ms :
              /\ i < Len(ms)
              /\ Len(ms[i].par_name) + Len(ms[i].par_args) = MaxMemberNameLength(ms)
              /\ ms[i].par_args # ""
              /\ CommentOnMemberLine(ms[i], MaxMemberNameLength(ms))
              /\ PadWidth(ms[i], MaxMemberNameLength(ms), ";") = 0
              /\ CommentOnMemberLine(ms[Len(ms)], MaxMemberNameLength(ms))
              /\ Occurrences(call.ret[1].f, " /* ") # {}

=============================================================================
